---- MODULE Spec2Model ----
(***************************************************************************)
(* A model of the decision pipeline of ReXcan (python/app): the sliding-   *)
(* window RateLimiter and the BackpressureManager, the confidence formula  *)
(* and the fallback policy, the total-amount extractor, and the            *)
(* process / verify / rollback handlers of the HTTP service.               *)
(*                                                                         *)
(* Real numbers are fixed-point integers.  Scores and confidences are in   *)
(* units of 1/10000 (0.85 is 8500); amounts are in cents; time is in       *)
(* whole seconds.                                                          *)
(***************************************************************************)
EXTENDS Integers, Sequences, FiniteSets, TLC

VARIABLES
    now,          \* the wall clock read by time.time(), in seconds
    max_calls,    \* RateLimiter.max_calls
    time_window,  \* RateLimiter.time_window
    calls,        \* RateLimiter.calls: the deque of grant timestamps
    lock,         \* RateLimiter.lock: the set of threads inside `with self.lock`
    pc,           \* the position of each thread inside acquire()
    tnow,         \* the local `now` of each thread inside acquire()
    ret,          \* the value each thread's last acquire() returned
    granted,      \* history: the timestamps of the calls that returned True
    cfn,          \* the scoring function that was called ("none" before a call)
    cargs,        \* the arguments of that call
    cres,         \* the value that call returned
    pending_ocr,  \* len(BackpressureManager.pending_ocr)
    bpret,        \* what can_process_ocr() returned to process_invoice
    cause,        \* the branch of can_process_ocr() that refused the call
    report,       \* what process_invoice told its caller about the OCR step
    jblocks,      \* job["ocr_blocks"]: the OCR blocks of the uploaded document
    jheur,        \* what the heuristic extractors return on those blocks
    jresult,      \* job["result"]: the stored result ("absent" fields before)
    joriginal,    \* job["original_result"]
    llm_call_count, \* SafetyGuard.llm_call_count
    ppc,          \* the position of the running process_invoice call
    run_timings,  \* process_invoice: the timings dict of this run
    hres,         \* process_invoice: the (value, confidence, reason) tuples
    fconf,        \* process_invoice: field_confidences
    fsrc,         \* process_invoice: field_sources
    all_high_conf,  \* process_invoice: the early-exit flag
    fields_to_extract, \* process_invoice: the fields of the batched call
    llm_calls,    \* history: the field lists of this run's extract_fields calls
    snap,         \* history: the total (value, confidence, source) before the batched call
    llm_result,   \* process_invoice: the response to the batched call
    runs,         \* the number of times process_invoice ran on the job
    nverified,    \* the number of corrections applied to the job
    presult,      \* the audit trail of the InvoiceExtract the run returned
    audit,        \* AuditLogger: the entries of the job's audit file
    vreq,         \* history: the latest /verify or rollback request
    taken,        \* history: the fields whose value the run took from a response
    conf_before,  \* history: field_confidences before the reconciliation
    tblocks,      \* extract_total_amount: the blocks argument
    tinvoice_id,  \* extract_total_amount: the invoice_id argument
    tret,         \* extract_total_amount: whether it was called, and its result
    llm_limiter,  \* BackpressureManager.llm_limiter.calls
    pending_llm,  \* len(BackpressureManager.pending_llm)
    grun,         \* history: the limiter decisions and the outcome of the latest run
    rkind,        \* retry: which helper runs, retry_llm_call or retry_ocr_call
    rfunc,        \* retry: the wrapped function
    rpc,          \* retry: position in the loop
    rattempt,     \* retry: attempt
    rdelay,       \* retry: delay
    rlog,         \* history: what each attempt met
    rslept,       \* history: the sleeps between attempts
    relapsed,     \* timeit: the time spent in the retried call
    rret,         \* retry: the return value
    xfret,        \* extract_fields: the return value
    xrec,         \* export: the stored result of the job
    xout,         \* export: the handler that ran and what it answered
    dinv,         \* check_duplicates: invoice_data
    dhashes,      \* check_duplicates: existing_hashes
    dexisting,    \* check_duplicates: existing_invoices
    dret,         \* check_duplicates: whether it was called, and its result
    hblocks,      \* process_invoice: the OCR blocks of the run
    hlog,         \* history: the extractor calls of step 2, with argument and result
    hscore,       \* process_invoice: field_confidences of invoice_id and total_amount
    docrec,       \* history: for each document, the records its runs produced
    wret,         \* history: the latest wait_time() call and what it returned
    date_blocks,  \* extract_date: the blocks argument
    date_runs,    \* history: the tuples the runs of extract_date returned
    processed     \* job_storage: the results, in processing order

rlVars == <<now, max_calls, time_window, calls, lock, pc, tnow, ret, granted>>
cfVars == <<cfn, cargs, cres>>
bpVars == <<pending_ocr, bpret, cause, report>>
jobVars == <<jblocks, jheur, jresult, joriginal, llm_call_count, runs,
             nverified, presult, audit, vreq>>
runVars == <<ppc, run_timings, hres, fconf, fsrc, all_high_conf,
             fields_to_extract, llm_calls, snap, llm_result, taken,
             conf_before>>
piVars == <<jobVars, runVars>>
etVars == <<tblocks, tinvoice_id, tret>>
gateVars == <<llm_limiter, pending_llm, grun>>
retryVars == <<rkind, rfunc, rpc, rattempt, rdelay, rlog, rslept, relapsed, rret,
               xfret>>
exportVars == <<xrec, xout>>
dedupeVars == <<dinv, dhashes, dexisting, dret>>
heurVars == <<hblocks, hlog, hscore>>
docsVars == <<docrec>>
waitVars == <<wret>>
dateVars == <<date_blocks, date_runs>>
storeVars == <<processed>>

vars == <<rlVars, cfVars, bpVars, piVars, etVars, gateVars, retryVars,
          exportVars, dedupeVars, heurVars, docsVars, waitVars, dateVars,
          storeVars>>

\* What the actions of one component leave alone.
rlOthers == <<cfVars, bpVars, piVars, etVars, gateVars, retryVars, exportVars,
              dedupeVars, heurVars, docsVars, waitVars, dateVars, storeVars>>
cfOthers == <<rlVars, bpVars, piVars, etVars, gateVars, retryVars, exportVars,
              dedupeVars, heurVars, docsVars, waitVars, dateVars, storeVars>>
bpOthers == <<cfVars, piVars, etVars, retryVars, exportVars, dedupeVars,
              heurVars, docsVars, waitVars, dateVars, storeVars>>
piOthers == <<rlVars, cfVars, bpVars, etVars, gateVars, retryVars, exportVars,
              dedupeVars, heurVars, docsVars, waitVars, dateVars, storeVars>>
etOthers == <<rlVars, cfVars, bpVars, piVars, gateVars, retryVars, exportVars,
              dedupeVars, heurVars, docsVars, waitVars, dateVars, storeVars>>
gateOthers == <<cfVars, piVars, etVars, retryVars, exportVars, dedupeVars,
                heurVars, docsVars, waitVars, dateVars, storeVars>>
retryOthers == <<rlVars, cfVars, bpVars, piVars, etVars, gateVars, exportVars,
                 dedupeVars, heurVars, docsVars, waitVars, dateVars,
                 storeVars>>
exportOthers == <<rlVars, cfVars, bpVars, piVars, etVars, gateVars, retryVars,
                  dedupeVars, heurVars, docsVars, waitVars, dateVars,
                  storeVars>>
dedupeOthers == <<rlVars, cfVars, bpVars, piVars, etVars, gateVars, retryVars,
                  exportVars, heurVars, docsVars, waitVars, dateVars,
                  storeVars>>
heurOthers == <<rlVars, cfVars, bpVars, piVars, etVars, gateVars, retryVars,
                exportVars, dedupeVars, docsVars, waitVars, dateVars,
                storeVars>>
dateOthers == <<rlVars, cfVars, bpVars, piVars, etVars, gateVars, retryVars,
                exportVars, dedupeVars, heurVars, docsVars, waitVars,
                storeVars>>
storeOthers == <<rlVars, cfVars, bpVars, piVars, etVars, gateVars, retryVars,
                 exportVars, dedupeVars, heurVars, docsVars, waitVars,
                 dateVars>>

(***************************************************************************)
(* Bounds of the model.                                                    *)
(***************************************************************************)
NumThreads == 2
MaxCallsBound == 2
MaxWindow == 2
MaxTime == 4
RLMaxTime == 125
ScoreGrid == 10
MaxBlocks == 2
MaxDelay == 1
MaxRuns == 1
MaxCorrections == 1
MaxTotalBlocks == 3
MaxExisting == 6
MaxAudit == 2
MaxDateBlocks == 2
MaxProcessed == 3

Threads == 1..NumThreads

Min2(a, b) == IF a <= b THEN a ELSE b
Max2(a, b) == IF a >= b THEN a ELSE b

(***************************************************************************)
(* RateLimiter (backpressure.py).                                          *)
(***************************************************************************)

\* `while self.calls and self.calls[0] < now - self.time_window: popleft()`
RECURSIVE EvictNever(_, _, _)
EvictNever(cs, t, w) == cs

RECURSIVE Evict(_, _, _)
Evict(cs, t, w) ==
    IF cs # <<>> /\ Head(cs) < t - w
    THEN Evict(Tail(cs), t, w)
    ELSE cs

\* `with self.lock:` can be entered only when no other thread is inside.
LockIsFreeNoMutex == TRUE

LockIsFree == lock = {}

\* RateLimiter.__init__ followed by nothing else: an idle limiter.
RLInit(mc, tw) ==
    /\ now = 0
    /\ max_calls = mc
    /\ time_window = tw
    /\ calls = <<>>
    /\ lock = {}
    /\ pc = [t \in Threads |-> "idle"]
    /\ tnow = [t \in Threads |-> 0]
    /\ ret = [t \in Threads |-> "none"]
    /\ granted = <<>>

\* acquire(): enter `with self.lock`.
AcqLock(t) ==
    /\ pc[t] = "idle"
    /\ LockIsFree
    /\ lock' = lock \cup {t}
    /\ pc' = [pc EXCEPT ![t] = "locked"]
    /\ UNCHANGED <<now, max_calls, time_window, calls, tnow, ret, granted>>
    /\ UNCHANGED rlOthers

\* acquire(): `now = time.time()` and the eviction loop.
AcqEvict(t) ==
    /\ pc[t] = "locked"
    /\ tnow' = [tnow EXCEPT ![t] = now]
    /\ calls' = Evict(calls, now, time_window)
    /\ pc' = [pc EXCEPT ![t] = "evicted"]
    /\ UNCHANGED <<now, max_calls, time_window, lock, ret, granted>>
    /\ UNCHANGED rlOthers

\* acquire(): `if len(self.calls) >= self.max_calls: return False`.
AcqCheck(t) ==
    /\ pc[t] = "evicted"
    /\ IF Len(calls) >= max_calls
       THEN /\ ret' = [ret EXCEPT ![t] = "false"]
            /\ lock' = lock \ {t}
            /\ pc' = [pc EXCEPT ![t] = "idle"]
       ELSE /\ pc' = [pc EXCEPT ![t] = "append"]
            /\ UNCHANGED <<ret, lock>>
    /\ UNCHANGED <<now, max_calls, time_window, calls, tnow, granted>>
    /\ UNCHANGED rlOthers

\* acquire(): `self.calls.append(now); return True`.
AcqAppend(t) ==
    /\ pc[t] = "append"
    /\ calls' = Append(calls, tnow[t])
    /\ granted' = Append(granted, tnow[t])
    /\ ret' = [ret EXCEPT ![t] = "true"]
    /\ lock' = lock \ {t}
    /\ pc' = [pc EXCEPT ![t] = "idle"]
    /\ UNCHANGED <<now, max_calls, time_window, tnow>>
    /\ UNCHANGED rlOthers

\* The clock advances by d seconds, at any point of any thread's call.
Tick(d, limit) ==
    /\ now + d <= limit
    /\ now' = now + d
    /\ UNCHANGED <<max_calls, time_window, calls, lock, pc, tnow, ret, granted>>
    /\ UNCHANGED rlOthers

(***************************************************************************)
(* Confidence scoring and the fallback policy (confidence.py).             *)
(* A score s in [0,1] is the integer 10000*s.                              *)
(***************************************************************************)
One == 10000 \div 1

\* The grid the scores of the model are drawn from: k/ScoreGrid.
Scores == {(One * k) \div ScoreGrid : k \in 0..ScoreGrid}

\* Confidences the fallback policy is asked about: the grid and both sides
\* of the two thresholds.
PolicyConfs == Scores \cup {4999, 5000, 8499, 8500}

Min3(a, b, c) == Min2(a, Min2(b, c))

\* confidence.py compute_confidence:
\*   final = 0.2 + 0.7 * min(ocr_c, label_score, regex_score) + (0.1 | 0.0)
\*   return max(0.0, min(1.0, final))
compute_confidence_NoBonus(ocr_c, label_score, regex_score, llm_agree) ==
    LET base == 2000
        final == base + (7 * Min3(ocr_c, label_score, regex_score)) \div 10
    IN  Max2(0, Min2(One, final))

compute_confidence(ocr_c, label_score, regex_score, llm_agree) ==
    LET base == 2000
        final == base + (7 * Min3(ocr_c, label_score, regex_score)) \div 10
                      + (IF llm_agree THEN 1000 ELSE 0)
    IN  Max2(0, Min2(One, final))

\* An OCR block as get_ocr_confidence_for_text sees it: whether its text
\* contains the value, and its confidence.
BlockConfs == {3000, 8000, One}
BlockViews == [has : BOOLEAN, confidence : BlockConfs]

RECURSIVE SumConf(_)
SumConf(bs) == IF bs = <<>> THEN 0 ELSE Head(bs).confidence + SumConf(Tail(bs))

\* confidence.py get_ocr_confidence_for_text; `empty` is
\* `text is None or not str(text).strip()`.
get_ocr_confidence_for_text(blocks, empty) ==
    LET matching_blocks == SelectSeq(blocks, LAMBDA b : b.has)
    IN  IF empty THEN 0
        ELSE IF matching_blocks = <<>> THEN 5000
        ELSE SumConf(matching_blocks) \div Len(matching_blocks)

\* The words compute_field_confidence looks for in the lower-cased reason.
Keywords == {"strict", "relaxed", "label", "pattern", "found", "heuristic"}

\* confidence.py compute_field_confidence.  `value` is "none" (None),
\* "blank" (a string that strips to nothing) or "text"; `reason` is the set
\* of Keywords the reason string contains.
compute_field_confidence(value, blocks, heuristic_conf, reason, llm_agree) ==
    LET ocr_c == get_ocr_confidence_for_text(blocks, value = "blank")
        sub ==
            IF "strict" \in reason
            THEN [regex |-> One,
                  label |-> IF "label" \in reason THEN One
                            ELSE Min2(7000, heuristic_conf)]
            ELSE IF "relaxed" \in reason
            THEN [regex |-> 6000, label |-> 4000]
            ELSE IF "label" \in reason
            THEN [label |-> Min2(One, heuristic_conf),
                  regex |-> Min2(8000, (heuristic_conf * 9) \div 10)]
            ELSE IF "pattern" \in reason \/ "found" \in reason
            THEN [label |-> 4000, regex |-> Min2(7000, heuristic_conf)]
            ELSE IF "heuristic" \in reason
            THEN [label |-> 3000, regex |-> 3000]
            ELSE [label |-> Min2(5000, (heuristic_conf * 6) \div 10),
                  regex |-> Min2(5000, (heuristic_conf * 7) \div 10)]
        conf == compute_confidence(ocr_c, sub.label, sub.regex, llm_agree)
    IN  IF value = "none"
        THEN [conf |-> 0, auto |-> FALSE]
        ELSE [conf |-> conf,
              auto |-> sub.regex = One /\ ocr_c >= 7500 /\ conf >= 8500]

\* The `timings` argument of should_use_llm: None or an empty dict (both
\* falsy, present = FALSE), or a dict whose missing keys read as 0
\* (dict.get(key, 0)).  Times are in seconds.
Times == {0, 5, 6, 11}
Timings ==
    [present : {FALSE}, ocr : {0}, extraction : {0}, heuristics : {0}]
    \cup [present : {TRUE}, ocr : Times, extraction : {0, 11}, heuristics : Times]

\* `if timings`
TimingsTruthy(timings) == timings.present

\* `timings.get("ocr", 0) or timings.get("extraction", 0)`
OcrTime(timings) ==
    IF timings.ocr # 0 THEN timings.ocr ELSE timings.extraction

\* confidence.py should_use_llm.
should_use_llm_LowConfFirst(confidence, is_required, timings, field_missing) ==
    IF confidence < 5000 /\ is_required
    THEN [use |-> TRUE, reason |-> "low_conf"]
    ELSE IF field_missing /\ is_required
    THEN [use |-> TRUE, reason |-> "missing_field"]
    ELSE IF /\ TimingsTruthy(timings)
            /\ is_required
            /\ OcrTime(timings) + timings.heuristics > 10
            /\ confidence < 8500
    THEN [use |-> TRUE, reason |-> "slow_pipeline"]
    ELSE [use |-> FALSE, reason |-> ""]

should_use_llm(confidence, is_required, timings, field_missing) ==
    IF field_missing /\ is_required
    THEN [use |-> TRUE, reason |-> "missing_field"]
    ELSE IF confidence < 5000 /\ is_required
    THEN [use |-> TRUE, reason |-> "low_conf"]
    ELSE IF /\ TimingsTruthy(timings)
            /\ is_required
            /\ OcrTime(timings) + timings.heuristics > 10
            /\ confidence < 8500
    THEN [use |-> TRUE, reason |-> "slow_pipeline"]
    ELSE [use |-> FALSE, reason |-> ""]

\* Before any call.
CfIdle ==
    /\ cfn = "none"
    /\ cargs = <<>>
    /\ cres = <<>>

\* A call compute_confidence(ocr_c, label_score, regex_score, llm_agree).
CallComputeConfidence ==
    /\ cfn = "none"
    /\ \E o \in Scores, l \in Scores, r \in Scores, a \in BOOLEAN :
          /\ cargs' = [ocr_c |-> o, label_score |-> l, regex_score |-> r,
                       llm_agree |-> a]
          /\ cres' = compute_confidence(o, l, r, a)
    /\ cfn' = "compute_confidence"
    /\ UNCHANGED cfOthers

\* The block lists of the model: up to MaxBlocks blocks.
BlockLists == UNION {[1..n -> BlockViews] : n \in 0..MaxBlocks}

\* A call compute_field_confidence(field, value, blocks, result, llm_agree).
CallComputeFieldConfidence ==
    /\ cfn = "none"
    /\ \E v \in {"none", "blank", "text"}, bs \in BlockLists, h \in Scores,
          rs \in SUBSET Keywords, a \in BOOLEAN :
          /\ cargs' = [value |-> v, blocks |-> bs, heuristic_conf |-> h,
                       reason |-> rs, llm_agree |-> a]
          /\ cres' = compute_field_confidence(v, bs, h, rs, a)
    /\ cfn' = "compute_field_confidence"
    /\ UNCHANGED cfOthers

\* A call should_use_llm(confidence, field, is_required, timings, missing).
CallShouldUseLlm ==
    /\ cfn = "none"
    /\ \E c \in PolicyConfs, q \in BOOLEAN, tm \in Timings, m \in BOOLEAN :
          /\ cargs' = [confidence |-> c, is_required |-> q, timings |-> tm,
                       field_missing |-> m]
          /\ cres' = should_use_llm(c, q, tm, m)
    /\ cfn' = "should_use_llm"
    /\ UNCHANGED cfOthers

(***************************************************************************)
(* BackpressureManager.can_process_ocr and its caller, step 1 of           *)
(* process_invoice (main.py).  The handler is a coroutine without a        *)
(* suspension point here, so one admission is one step.                    *)
(***************************************************************************)
OcrMaxCalls == 20
OcrWindow == 60
MaxQueueSize == 100

\* can_process_ocr() returns (can_process, wait_time); wait_time None is
\* [none |-> TRUE], a float is [none |-> FALSE, v |-> seconds].
NoWait == [none |-> TRUE, v |-> 0]
Wait(v) == [none |-> FALSE, v |-> v]

\* RateLimiter.wait_time() read at clock t.
wait_time(cs, t, mc, w) ==
    IF Len(cs) < mc THEN 0
    ELSE LET oldest_call == Head(cs)
             wait == w - (t - oldest_call)
         IN  Max2(0, wait)

\* `if wait_time:` in process_invoice: None and 0.0 are both falsy.
WaitTruthy(wt) == ~wt.none /\ wt.v # 0

\* BackpressureManager.__init__, no admission asked yet.
BPIdle ==
    /\ pending_ocr = 0
    /\ bpret = [ok |-> TRUE, wait |-> NoWait]
    /\ cause = "none"
    /\ report = "none"

\* An admission that puts a request refused by the limiter in pending_ocr
OcrAdmission_Enqueue(delay) ==
    LET evicted == Evict(calls, now, time_window)
    IN
    /\ now + delay <= RLMaxTime
    /\ IF pending_ocr >= MaxQueueSize
       THEN /\ bpret' = [ok |-> FALSE, wait |-> NoWait]
            /\ cause' = "queue"
            /\ UNCHANGED <<now, calls, granted, pending_ocr>>
       ELSE IF Len(evicted) < max_calls
       THEN /\ calls' = Append(evicted, now)
            /\ granted' = Append(granted, now)
            /\ bpret' = [ok |-> TRUE, wait |-> Wait(0)]
            /\ cause' = "none"
            /\ UNCHANGED <<now, pending_ocr>>
       ELSE /\ calls' = evicted
            /\ now' = now + delay
            /\ bpret' = [ok |-> FALSE,
                         wait |-> Wait(wait_time(evicted, now + delay,
                                                 max_calls, time_window))]
            /\ cause' = "rate"
            /\ pending_ocr' = pending_ocr + 1
            /\ UNCHANGED granted
    /\ report' = IF bpret'.ok THEN "extracting"
                 ELSE IF WaitTruthy(bpret'.wait) THEN "rate_limited"
                 ELSE "queue_full"
    /\ UNCHANGED <<max_calls, time_window, lock, pc, tnow, ret>>

\* process_invoice, `if "ocr_blocks" not in job:` ... can_process_ocr().
\* `delay` is the time that passes between the clock reading of acquire()
\* and the clock reading of wait_time().
OcrAdmission(delay) ==
    LET evicted == Evict(calls, now, time_window)
    IN
    /\ now + delay <= RLMaxTime
    /\ IF pending_ocr >= MaxQueueSize
       THEN /\ bpret' = [ok |-> FALSE, wait |-> NoWait]
            /\ cause' = "queue"
            /\ UNCHANGED <<now, calls, granted>>
       ELSE IF Len(evicted) < max_calls
       THEN /\ calls' = Append(evicted, now)
            /\ granted' = Append(granted, now)
            /\ bpret' = [ok |-> TRUE, wait |-> Wait(0)]
            /\ cause' = "none"
            /\ UNCHANGED now
       ELSE /\ calls' = evicted
            /\ now' = now + delay
            /\ bpret' = [ok |-> FALSE,
                         wait |-> Wait(wait_time(evicted, now + delay,
                                                 max_calls, time_window))]
            /\ cause' = "rate"
            /\ UNCHANGED granted
    /\ report' = IF bpret'.ok THEN "extracting"
                 ELSE IF WaitTruthy(bpret'.wait) THEN "rate_limited"
                 ELSE "queue_full"
    /\ UNCHANGED <<max_calls, time_window, lock, pc, tnow, ret, pending_ocr>>

\* An admission on its own: the rest of the run is left out.
ProcessOcrAdmission(delay) ==
    /\ OcrAdmission(delay)
    /\ UNCHANGED <<bpOthers, gateVars>>

(***************************************************************************)
(* process_invoice, verify_corrections and rollback_corrections (main.py). *)
(* The handlers are coroutines that never suspend, so a running            *)
(* process_invoice is not interleaved with another handler; its steps are  *)
(* kept apart to expose the two places where the external model is called. *)
(***************************************************************************)
MaxLlmCallsPerJob == 10
MaxTotal == 1000000
MaxTotalCents == MaxTotal * 100

FieldOrder ==
    <<"invoice_id", "invoice_date", "total_amount", "vendor_name", "amount_tax">>
RequiredOrder ==
    <<"invoice_id", "invoice_date", "total_amount", "vendor_name">>
Fields == {FieldOrder[i] : i \in 1..Len(FieldOrder)}
Required == {RequiredOrder[i] : i \in 1..Len(RequiredOrder)}

Range(q) == {q[i] : i \in 1..Len(q)}

\* Python values: None, "", a string of blanks, another string (n is the
\* number its digits spell for an identifier, and 1 or 0 for a date that
\* does or does not parse), and a float amount (n in cents).
NoneV == [k |-> "none", n |-> 0]
EmptyV == [k |-> "empty", n |-> 0]
BlankV == [k |-> "blank", n |-> 0]
Text(n) == [k |-> "text", n |-> n]
Num(c) == [k |-> "num", n |-> c]

\* bool(v)
Truthy(v) == v.k \in {"blank", "text"} \/ (v.k = "num" /\ v.n # 0)

\* The decimal digits of a non-negative integer: str(int(x)).
RECURSIVE IntStr(_)
IntStr(n) == IF n < 10 THEN <<n>> ELSE Append(IntStr(n \div 10), n % 10)

\* re.sub(r'[^\d]', '', str(invoice_id))
DigitsOf(v) == IF v.k = "text" /\ v.n > 0 THEN IntStr(v.n) ELSE <<>>

\* `a in b` for strings
IsSubstr(a, b) ==
    \E i \in 0..(Len(b) - Len(a)) : SubSeq(b, i + 1, i + Len(a)) = a

\* What the extractors of heuristics.py return: (value, confidence, reason),
\* the reason as the set of Keywords it contains.
NoBlocks == [v |-> NoneV, conf |-> 0, kw |-> {}]
NotFound == [v |-> NoneV, conf |-> 0, kw |-> {"found"}]

HeurChoices(f) ==
    {NotFound} \cup
    CASE f = "invoice_id" ->
           {[v |-> Text(273), conf |-> 9000, kw |-> {"strict", "label"}],
            [v |-> Text(273), conf |-> 6200, kw |-> {"relaxed"}]}
      [] f = "invoice_date" ->
           {[v |-> Text(1), conf |-> 9000, kw |-> {"found", "label"}]}
      [] f = "total_amount" ->
           {[v |-> Num(54446), conf |-> 6200, kw |-> {}]}
      [] f = "vendor_name" ->
           {[v |-> Text(1), conf |-> 8500, kw |-> {"found", "label"}]}
      [] f = "amount_tax" -> {}  \* these invoices carry no tax line

\* Every confidence an extractor of heuristics.py returns with a value:
\* 0.2 + 0.7 * min(ocr_c, label_score, regex_score) for the identifier and
\* the total, the literals of extract_date and extract_vendor_name.
ExtractorReturns(f) ==
    {NotFound} \cup
    {[v |-> IF f = "total_amount" THEN Num(54446)
            ELSE IF f = "invoice_id" THEN Text(273) ELSE Text(1),
      conf |-> c, kw |-> {}] :
        c \in CASE f = "invoice_id" ->
                    {2000 + (7 * m) \div 10 : m \in {5000, 6000, 8000, One}}
               [] f = "invoice_date" ->
                    {9000, 8500, 8000, 7500, 7000, 6000}
               [] f = "total_amount" ->
                    {2000 + (7 * m) \div 10 : m \in {6000, 7000, 8000, One}}
               [] f = "vendor_name" -> {8500, 9000, 7000, 8000}
               [] f = "amount_tax" -> {}}

\* The OCR blocks of a job: none, or one block with its confidence and the
\* fields whose value its text contains.
PIBlockLists ==
    {<<>>, <<[confidence |-> One, holds |-> Fields]>>,
     <<[confidence |-> 3000, holds |-> {}]>>}

ViewFor(f, blocks) ==
    [i \in DOMAIN blocks |->
        [has |-> f \in blocks[i].holds, confidence |-> blocks[i].confidence]]

\* The timings dict after steps 1 and 2: fast, or slower than 10 s.
PITimings ==
    {[present |-> TRUE, ocr |-> o, extraction |-> 0, heuristics |-> 5] :
        o \in {5, 6}}

\* What llm_router.extract_fields returns: None, or a dict with a value or
\* null per field (identifier, date and vendor together, and a total, which
\* is a number or a string that spells none, Text(0)).
NoResponse ==
    [none |-> TRUE, invoice_id |-> NoneV, invoice_date |-> NoneV,
     total_amount |-> NoneV, vendor_name |-> NoneV, amount_tax |-> NoneV]

LLMResponses ==
    {NoResponse} \cup
    {[none |-> FALSE, invoice_id |-> IF named THEN Text(273) ELSE NoneV,
      invoice_date |-> IF named THEN Text(1) ELSE NoneV,
      vendor_name |-> IF named THEN Text(1) ELSE NoneV,
      total_amount |-> total, amount_tax |-> NoneV] :
        named \in BOOLEAN,
        total \in {NoneV, Num(27300), Num(2700), Num(54446), Num(200000000),
                   Text(0)}}

\* A stored result: the four required values and the validation flags,
\* which a dict may lack.
NoFlags ==
    [present |-> FALSE, missing_invoice_id |-> FALSE, missing_total |-> FALSE,
     missing_vendor_name |-> FALSE, missing_date |-> FALSE, is_invalid |-> FALSE]

NoResult ==
    [present |-> FALSE, invoice_id |-> NoneV, invoice_date |-> NoneV,
     total_amount |-> NoneV, vendor_name |-> NoneV, flags |-> NoFlags]

\* `not s or s.strip() == ""`
MissingStr(v) == ~Truthy(v) \/ v.k = "blank"

\* The flags as process_invoice and verify_corrections derive them.
FlagsOf(id, date, total, vendor) ==
    [present |-> TRUE,
     missing_invoice_id |-> MissingStr(id),
     missing_total |-> total.k = "none",
     missing_vendor_name |-> MissingStr(vendor),
     missing_date |-> MissingStr(date),
     is_invalid |-> \/ MissingStr(id)
                    \/ total.k = "none"
                    \/ MissingStr(vendor)
                    \/ MissingStr(date)]

\* canonicalize.py canonicalize_date: a date that parses, else None.
canonicalize_date(v) == IF v.k = "text" /\ v.n = 1 THEN v ELSE NoneV

\* canonicalize.py canonicalize_amount(str(v)): the float a numeric string
\* spells, None for "None" and for text without a number.
canonicalize_amount(v) == IF v.k = "num" THEN v ELSE NoneV

\* VendorCanonicalizer.canonicalize: (None, None, ...) for an empty name.
canonicalize_vendor(v) == IF v.k = "text" THEN v ELSE NoneV

\* The user_id of a request, and no request yet.
UserIds == {"system", "u1"}

NoRequest ==
    [handler |-> "none", field |-> "", value |-> NoneV, user_id |-> ""]

\* The audit trail of a returned InvoiceExtract: llm_used, llm_fields and
\* field_sources (main.py 664-667).
NoReturn ==
    [present |-> FALSE, llm_used |-> FALSE, llm_fields |-> <<>>,
     field_sources |-> [f \in Fields |-> "unset"]]

\* The locals of process_invoice before it runs.
RunIdle ==
    /\ ppc = "idle"
    /\ run_timings = [present |-> FALSE, ocr |-> 0, extraction |-> 0,
                  heuristics |-> 0]
    /\ hres = [f \in Fields |-> NoBlocks]
    /\ fconf = [f \in Fields |-> 0]
    /\ fsrc = [f \in Fields |-> "unset"]
    /\ all_high_conf = FALSE
    /\ fields_to_extract = <<>>
    /\ llm_calls = <<>>
    /\ snap = [v |-> NoneV, conf |-> 0, src |-> "unset"]
    /\ llm_result = NoResponse
    /\ taken = [early |-> {}, batch |-> {}]
    /\ conf_before = [f \in Fields |-> 0]

\* A job after upload and OCR: blocks and what the extractors make of them.
JobInit ==
    /\ jblocks \in PIBlockLists
    /\ jheur \in [Fields ->
                  UNION {HeurChoices(f) : f \in Fields} \cup {NoBlocks}]
    /\ IF jblocks = <<>>
       THEN \A f \in Fields : jheur[f] = NoBlocks
       ELSE \A f \in Fields : jheur[f] \in HeurChoices(f)
    /\ jresult = NoResult
    /\ joriginal = NoResult
    /\ llm_call_count \in {0, MaxLlmCallsPerJob}
    /\ runs = 0
    /\ nverified = 0
    /\ presult = NoReturn
    /\ audit = <<>>
    /\ vreq = NoRequest

\* No job: the state of the variables of this component in the other
\* specifications.
PIIdle ==
    /\ jblocks = <<>>
    /\ jheur = [f \in Fields |-> NoBlocks]
    /\ jresult = NoResult
    /\ joriginal = NoResult
    /\ llm_call_count = 0
    /\ runs = 0
    /\ nverified = 0
    /\ presult = NoReturn
    /\ audit = <<>>
    /\ vreq = NoRequest
    /\ RunIdle

\* Steps 1 and 2: OCR blocks are in the job, the extractors run.
PStart ==
    /\ ppc = "idle"
    /\ runs < MaxRuns
    /\ runs' = runs + 1
    /\ \E tm \in PITimings : run_timings' = tm
    /\ hres' = jheur
    /\ ppc' = "heuristics"
    /\ llm_calls' = <<>>
    /\ taken' = [early |-> {}, batch |-> {}]
    /\ presult' = NoReturn
    /\ UNCHANGED <<fconf, fsrc, all_high_conf, fields_to_extract, snap,
                   llm_result, conf_before>>
    /\ UNCHANGED <<jblocks, jheur, jresult, joriginal, llm_call_count,
                   nverified, audit, vreq, piOthers>>

\* The quick confidence without the 0.7 weight
QuickConf_Unweighted(res) ==
    LET t == IF Truthy(res.v) THEN One ELSE 0
    IN  2000 + Min3(res.conf, t, t)

\* 0.2 + 0.7 * min(result[1], 1.0 if result[0] else 0.0, ...)
QuickConf(res) ==
    LET t == IF Truthy(res.v) THEN One ELSE 0
    IN  2000 + (7 * Min3(res.conf, t, t)) \div 10

AllHighConf(results) == \A f \in Required : QuickConf(results[f]) >= 8500

\* The early fallback ("if heuristics found < 2 fields") and the early-exit
\* test.
PEarly ==
    LET heuristic_success ==
            Cardinality({f \in Required : hres[f].v.k # "none"})
        early_llm_fields ==
            SelectSeq(RequiredOrder, LAMBDA f : ~Truthy(hres[f].v))
    IN
    /\ ppc = "heuristics"
    /\ IF /\ heuristic_success < 2
          /\ jblocks # <<>>
          /\ early_llm_fields # <<>>
          /\ llm_call_count < MaxLlmCallsPerJob
       THEN \E r \in LLMResponses :
               /\ llm_calls' = Append(llm_calls, early_llm_fields)
               /\ IF r.none
                  THEN UNCHANGED <<hres, llm_call_count, taken>>
                  ELSE /\ llm_call_count' = llm_call_count + 1
                       /\ hres' = [f \in Fields |->
                             IF f \in Required /\ Truthy(r[f])
                             THEN [v |-> r[f], conf |-> 7000, kw |-> {}]
                             ELSE hres[f]]
                       /\ taken' = [taken EXCEPT
                             !.early = {f \in Required : Truthy(r[f])}]
       ELSE UNCHANGED <<hres, llm_call_count, llm_calls, taken>>
    /\ all_high_conf' = AllHighConf(hres')
    /\ ppc' = "early"
    /\ UNCHANGED <<run_timings, fconf, fsrc, fields_to_extract, snap,
                   llm_result, conf_before>>
    /\ UNCHANGED <<jblocks, jheur, jresult, joriginal, runs, nverified,
                   presult, audit, vreq, piOthers>>

\* The field_value argument of compute_field_confidence.
ValueArg(f, v) ==
    IF f \in {"total_amount", "amount_tax"}
    THEN IF Truthy(v) THEN "text" ELSE "none"
    ELSE IF v.k = "none" THEN "none"
    ELSE IF v.k = "text" THEN "text" ELSE "blank"

\* Step 3: confidence scoring.
PScore ==
    /\ ppc = "early"
    /\ fconf' = [f \in Fields |->
          compute_field_confidence(ValueArg(f, hres[f].v), ViewFor(f, jblocks),
                                   hres[f].conf, hres[f].kw, FALSE).conf]
    /\ fsrc' = [f \in Fields |->
          IF f \in {"invoice_id", "invoice_date", "total_amount"}
          THEN IF Truthy(hres[f].v) THEN "heuristic" ELSE "none"
          ELSE "unset"]
    /\ ppc' = "scored"
    /\ UNCHANGED <<run_timings, hres, all_high_conf, fields_to_extract,
                   llm_calls, snap, llm_result, taken, conf_before>>
    /\ UNCHANGED <<jobVars, piOthers>>

\* The fields should_use_llm asks the external model for.
NeedsFallback(f) ==
    should_use_llm(fconf[f], f \in Required, run_timings,
                   hres[f].v.k = "none").use

\* Step 4, first half: collect the fields of the batched call.
PCollect ==
    /\ ppc = "scored"
    /\ fields_to_extract' =
          IF all_high_conf THEN <<>>
          ELSE SelectSeq(FieldOrder, NeedsFallback)
    /\ ppc' = "collected"
    /\ UNCHANGED <<run_timings, hres, fconf, fsrc, all_high_conf, llm_calls,
                   snap, llm_result, taken, conf_before>>
    /\ UNCHANGED <<jobVars, piOthers>>

\* Whether the reconciliation refuses the model's total, given the invoice
\* identifier it holds at that point.
TotalRefused(id, llm_total) ==
    /\ Truthy(id)
    /\ \/ llm_total.k # "num"  \* float(llm_total) raises ValueError: pass
       \/ LET inv_id_clean == DigitsOf(id)
              total_int_str == IntStr(llm_total.n \div 100)
          IN  \/ total_int_str = inv_id_clean
              \/ inv_id_clean # <<>> /\ IsSubstr(total_int_str, inv_id_clean)
              \/ llm_total.n > MaxTotalCents

Boost(c) == Min2(8500, c + 2000)

\* "Update values from LLM": the tuples, confidences and sources after a
\* response r.
Reconciled(r) ==
    LET is_taken(f) ==
            IF f = "total_amount"
            THEN /\ Truthy(r[f])
                 /\ ~TotalRefused(IF Truthy(r.invoice_id) THEN r.invoice_id
                                  ELSE hres["invoice_id"].v, r[f])
            ELSE Truthy(r[f])
    IN  [hres |-> [f \in Fields |->
                     IF is_taken(f) THEN [v |-> r[f], conf |-> 7500, kw |-> {}]
                     ELSE hres[f]],
         fconf |-> [f \in Fields |->
                     IF is_taken(f) THEN Boost(fconf[f]) ELSE fconf[f]],
         fsrc |-> [f \in Fields |-> IF is_taken(f) THEN "llm" ELSE fsrc[f]],
         taken |-> {f \in Fields : is_taken(f)}]

\* Step 4, second half: the batched call behind can_process_llm(), and the
\* reconciliation of its response.  `can` is the answer of the LLM limiter;
\* a failed call and an empty response both leave the heuristics alone.
PBatch ==
    /\ ppc = "collected"
    /\ snap' = [v |-> hres["total_amount"].v, conf |-> fconf["total_amount"],
                src |-> fsrc["total_amount"]]
    /\ conf_before' = fconf
    /\ IF fields_to_extract = <<>>
       THEN UNCHANGED <<hres, fconf, fsrc, llm_calls, llm_result, taken>>
       ELSE \E can \in BOOLEAN :
              IF ~can
              THEN UNCHANGED <<hres, fconf, fsrc, llm_calls, llm_result,
                               taken>>
              ELSE \E r \in LLMResponses :
                     /\ llm_calls' = Append(llm_calls, fields_to_extract)
                     /\ llm_result' = r
                     /\ IF r.none
                        THEN UNCHANGED <<hres, fconf, fsrc, taken>>
                        ELSE /\ hres' = Reconciled(r).hres
                             /\ fconf' = Reconciled(r).fconf
                             /\ fsrc' = Reconciled(r).fsrc
                             /\ taken' = [taken EXCEPT
                                   !.batch = Reconciled(r).taken]
    /\ ppc' = "reconciled"
    /\ UNCHANGED <<run_timings, all_high_conf, fields_to_extract>>
    /\ UNCHANGED <<jobVars, piOthers>>

\* Steps 5 and 6: canonicalize, derive the flags, store the result (and the
\* original result on the first run), return.
PStore ==
    LET invoice_id == hres["invoice_id"].v
        invoice_date == canonicalize_date(hres["invoice_date"].v)
        total_amount == IF Truthy(hres["total_amount"].v)
                        THEN canonicalize_amount(hres["total_amount"].v)
                        ELSE NoneV
        vendor_name == IF Truthy(hres["vendor_name"].v)
                       THEN canonicalize_vendor(hres["vendor_name"].v)
                       ELSE hres["vendor_name"].v
        llm_used == ~llm_result.none  \* `if llm_result:`
        llm_fields == IF llm_used THEN fields_to_extract ELSE <<>>
        values == [present |-> TRUE, invoice_id |-> invoice_id,
                   invoice_date |-> invoice_date,
                   total_amount |-> total_amount,
                   vendor_name |-> vendor_name, flags |-> NoFlags]
    IN
    /\ ppc = "reconciled"
    /\ joriginal' = IF joriginal.present THEN joriginal ELSE values
    /\ jresult' = [values EXCEPT
                     !.flags = FlagsOf(invoice_id, invoice_date, total_amount,
                                       vendor_name)]
    /\ ppc' = "idle"
    /\ run_timings' = [present |-> FALSE, ocr |-> 0, extraction |-> 0,
                   heuristics |-> 0]
    /\ hres' = [f \in Fields |-> NoBlocks]
    /\ fconf' = [f \in Fields |-> 0]
    /\ fsrc' = [f \in Fields |-> "unset"]
    /\ all_high_conf' = FALSE
    /\ fields_to_extract' = <<>>
    /\ llm_calls' = <<>>
    /\ snap' = [v |-> NoneV, conf |-> 0, src |-> "unset"]
    /\ llm_result' = NoResponse
    /\ conf_before' = [f \in Fields |-> 0]
    /\ presult' = [present |-> TRUE, llm_used |-> llm_used,
                   llm_fields |-> llm_fields, field_sources |-> fsrc]
    /\ UNCHANGED <<jblocks, jheur, llm_call_count, runs, nverified, taken,
                   audit, vreq, piOthers>>

\* The values a correction can carry for a field.
CorrectionValues(f) ==
    CASE f = "invoice_id" -> {NoneV, EmptyV, BlankV, Text(273)}
      [] f = "invoice_date" -> {NoneV, EmptyV, Text(0), Text(1)}
      [] f = "total_amount" -> {NoneV, Text(0), Num(0), Num(54446)}
      [] f = "vendor_name" -> {NoneV, EmptyV, BlankV, Text(1)}

\* AuditLogger.log_correction: the entries of the audit file after the call
\* (the timestamp is left out).
log_correction_Overwrite(entries, field_name, old_value, new_value, user_id, reason) ==
    <<[field_name |-> field_name, old_value |-> old_value,
       new_value |-> new_value, user_id |-> user_id, reason |-> reason,
       immutable |-> TRUE]>>

log_correction(entries, field_name, old_value, new_value, user_id, reason) ==
    Append(entries,
           [field_name |-> field_name, old_value |-> old_value,
            new_value |-> new_value, user_id |-> user_id, reason |-> reason,
            immutable |-> TRUE])

\* What /verify stores for a corrected field.
Canonical(f, v) ==
    CASE f = "invoice_id" -> v
      [] f = "invoice_date" -> canonicalize_date(v)
      [] f = "total_amount" -> canonicalize_amount(v)
      [] f = "vendor_name" -> canonicalize_vendor(v)

\* POST /verify with one correction: log it, set the field, re-canonicalize
\* it and recompute the validation flags.
Verify(f, v, user_id) ==
    LET old_value == jresult[f]
        r == [jresult EXCEPT ![f] = Canonical(f, v)]
    IN
    /\ ppc = "idle"
    /\ jresult.present
    /\ nverified < MaxCorrections
    /\ Len(audit) < MaxAudit
    /\ nverified' = nverified + 1
    /\ vreq' = [handler |-> "verify", field |-> f, value |-> v,
                user_id |-> user_id]
    /\ audit' = log_correction(audit, f, old_value, v, user_id,
                               "manual verification")
    /\ jresult' = [r EXCEPT
                     !.flags = FlagsOf(r.invoice_id, r.invoice_date,
                                       r.total_amount, r.vendor_name)]
    /\ UNCHANGED <<jblocks, jheur, joriginal, llm_call_count, runs, presult,
                   runVars, piOthers>>

\* POST /review/{job_id}/rollback: log the rollback, then
\* job["result"] = original_result.copy().
Rollback(user_id) ==
    /\ ppc = "idle"
    /\ joriginal.present
    /\ Len(audit) < MaxAudit
    /\ vreq' = [handler |-> "rollback", field |-> "rollback", value |-> NoneV,
                user_id |-> user_id]
    /\ audit' = log_correction(audit, "rollback", jresult, joriginal, user_id,
                               "rollback to original")
    /\ jresult' = joriginal
    /\ UNCHANGED <<jblocks, jheur, joriginal, llm_call_count, runs, nverified,
                   presult, runVars, piOthers>>

(***************************************************************************)
(* extract_total_amount (heuristics.py), with parse_amount_str (utils.py). *)
(* A block's normalized text is its sequence of blank-separated tokens.    *)
(* Amounts are kept as whole units and hundredths, scores in thousandths.  *)
(***************************************************************************)
MAX_TOTAL_DEFAULT == 1000000

\* Tokens: a word, a run of digits, or a number written in groups of three
\* digits with a decimal part, possibly with a currency symbol glued in
\* front of it.
Word(w) ==
    [kind |-> "word", w |-> w, sym |-> FALSE, groups |-> <<>>, dec |-> "",
     frac |-> 0]
DigitRun(n) ==
    [kind |-> "digits", w |-> "", sym |-> FALSE, groups |-> <<n>>, dec |-> "",
     frac |-> 0]
AmountTok(sym, groups, dec, frac) ==
    [kind |-> "amount", w |-> "", sym |-> sym, groups |-> groups, dec |-> dec,
     frac |-> frac]

\* The blocks of tests/test_total_fix.py (bbox[1] is top, bbox[3] bottom)
\* and variations of them.
BlkInvoiceNo ==
    [tokens |-> <<Word("invoice"), Word("no:"), DigitRun(27301261)>>,
     top |-> 0, bottom |-> 20, confidence |-> 9000]
BlkTotalDollar ==
    [tokens |-> <<Word("total:"), AmountTok(TRUE, <<544>>, ",", 46)>>,
     top |-> 2500, bottom |-> 2520, confidence |-> 9000]
BlkBareId ==
    [tokens |-> <<DigitRun(27301261)>>,
     top |-> 50, bottom |-> 70, confidence |-> 9000]
BlkTotalPlain ==
    [tokens |-> <<Word("total:"), AmountTok(FALSE, <<544>>, ",", 46)>>,
     top |-> 2500, bottom |-> 2520, confidence |-> 9000]
BlkIdAsAmount ==
    [tokens |-> <<AmountTok(FALSE, <<27, 301, 261>>, ".", 0)>>,
     top |-> 2600, bottom |-> 2620, confidence |-> 9000]
BlkSmallAmount ==
    [tokens |-> <<AmountTok(FALSE, <<273>>, ".", 50)>>,
     top |-> 1500, bottom |-> 1520, confidence |-> 8000]

TotalBlocks ==
    {BlkInvoiceNo, BlkTotalDollar, BlkBareId, BlkTotalPlain, BlkIdAsAmount,
     BlkSmallAmount}

\* The invoice_id argument: None, or a string whose digits spell n.
NoId == [present |-> FALSE, n |-> 0]
IdOf(n) == [present |-> TRUE, n |-> n]
TotalIds == {NoId, IdOf(27301261), IdOf(273)}

\* The number a sequence of three-digit groups spells.
RECURSIVE Whole(_)
Whole(groups) ==
    IF groups = <<>> THEN 0
    ELSE Whole(SubSeq(groups, 1, Len(groups) - 1)) * 1000
         + groups[Len(groups)]

\* AMOUNT_RELAXED: not preceded by a non-blank, digit groups, a decimal
\* part, not followed by a non-blank.  No block here holds two numbers side
\* by side, so a match never spans tokens.
AmountRelaxedMatches(tok) ==
    tok.kind = "amount" /\ ~tok.sym /\ tok.dec \in {".", ","}

\* parse_amount_str on the matched text: with a dot the commas are group
\* separators; a single comma before two digits is a decimal comma; several
\* commas are all removed.
parse_amount_str(tok) ==
    IF tok.dec = "," /\ Len(tok.groups) > 1
    THEN [w |-> Whole(tok.groups) * 100 + tok.frac, f |-> 0]
    ELSE [w |-> Whole(tok.groups), f |-> tok.frac]

\* find_blocks_with_label(blocks, TOTAL_LABELS), as block indices
TotalLabelBlocks(blocks) ==
    {i \in DOMAIN blocks :
        \E k \in DOMAIN blocks[i].tokens : blocks[i].tokens[k].w = "total:"}

\* 'invoice no' in text_lower
HasInvoiceNoLabel(b) ==
    \E k \in 1..(Len(b.tokens) - 1) :
        b.tokens[k].w = "invoice" /\ b.tokens[k + 1].w = "no:"

\* The runs of 7 to 12 digits in a block
LongRuns(b) ==
    {b.tokens[k].groups[1] :
        k \in {j \in DOMAIN b.tokens :
                 /\ b.tokens[j].kind = "digits"
                 /\ Len(IntStr(b.tokens[j].groups[1])) \in 7..12}}

\* invoice_id_numbers: the identifier's digits, the long numbers of blocks
\* with an invoice-number label, and bare long numbers in the top 300 units
InvoiceIdNumbers(blocks, invoice_id) ==
    (IF invoice_id.present THEN {invoice_id.n} ELSE {})
    \cup UNION {LongRuns(blocks[i]) :
                  i \in {j \in DOMAIN blocks : HasInvoiceNoLabel(blocks[j])}}
    \cup UNION {LongRuns(blocks[i]) :
                  i \in {j \in DOMAIN blocks :
                           blocks[j].top < 300 /\ Len(blocks[j].tokens) = 1}}

\* page_height = max(b.bbox[3] for b in blocks)
PageHeight(blocks) ==
    CHOOSE h \in {blocks[i].bottom : i \in DOMAIN blocks} :
        \A i \in DOMAIN blocks : blocks[i].bottom <= h

\* Blocks in the bottom 60% of the page or within 150 of a total label are
\* searched first.
IsPriority(blocks, i) ==
    \/ blocks[i].top * 10 >= 4 * PageHeight(blocks)
    \/ \E l \in TotalLabelBlocks(blocks) :
          Max2(blocks[l].top - blocks[i].top,
               blocks[i].top - blocks[l].top) < 150

NearLabel(blocks, i) ==
    \E l \in TotalLabelBlocks(blocks) :
        Max2(blocks[l].top - blocks[i].top,
             blocks[i].top - blocks[l].top) < 100

RECURSIVE Flatten(_)
Flatten(ss) == IF ss = <<>> THEN <<>> ELSE Head(ss) \o Flatten(Tail(ss))

\* The candidate list: every AMOUNT_RELAXED match that parses to a
\* non-zero value, priority blocks first.
Candidates(blocks) ==
    LET idx == [i \in 1..Len(blocks) |-> i]
        order == SelectSeq(idx, LAMBDA i : IsPriority(blocks, i))
                 \o SelectSeq(idx, LAMBDA i : ~IsPriority(blocks, i))
        ofBlock(i) ==
            LET toks == blocks[i].tokens
                all == [k \in 1..Len(toks) |->
                          [tok |-> toks[k], val |-> parse_amount_str(toks[k]),
                           blk |-> i, has_sym |-> toks[k].sym,
                           near_label |-> NearLabel(blocks, i)]]
            IN  SelectSeq(all, LAMBDA c :
                    /\ AmountRelaxedMatches(c.tok)
                    /\ ~(c.val.w = 0 /\ c.val.f = 0))
    IN  Flatten([n \in 1..Len(order) |-> ofBlock(order[n])])

\* The tests that drop a candidate before it is scored.  The identifiers
\* here hold no separator, so the matched text never equals one of them.
Excluded(c, invoice_id, invoice_id_numbers) ==
    LET val_str == IntStr(c.val.w)
    IN  \/ invoice_id.present /\ c.val.w = invoice_id.n /\ c.val.f = 0
        \/ c.val.w > MAX_TOTAL_DEFAULT
        \/ c.val.w = MAX_TOTAL_DEFAULT /\ c.val.f > 0
        \/ c.val.w = 0 /\ c.val.f = 0
        \/ c.val.w \in invoice_id_numbers
        \/ /\ c.val.f = 0
           /\ Len(val_str) >= 6
           /\ \E n \in invoice_id_numbers :
                 IsSubstr(val_str, IntStr(n)) \/ IsSubstr(IntStr(n), val_str)

\* 1000 * log10(val), for the amounts of TotalBlocks
Log10Milli(val) ==
    CASE val.w = 544 -> 2736
      [] val.w = 273 -> 2437
      [] OTHER -> 1000 * (Len(IntStr(val.w)) - 1)

\* The score of a candidate, in thousandths.
Score(c, blocks) ==
    LET page_height == PageHeight(blocks)
        bottom == blocks[c.blk].bottom
    IN  (IF c.near_label THEN 5000 ELSE 0)
        + (IF c.has_sym THEN 3000 ELSE 0)
        + (IF page_height = 0 \/ bottom = 0 THEN 0
           ELSE IF bottom * 10 >= 6 * page_height THEN 2500
           ELSE IF bottom * 2 >= page_height THEN 1000
           ELSE (300 * bottom) \div page_height)
        + Min2((3 * Log10Milli(c.val)) \div 10, 2000)
        + (IF c.tok.dec \in {".", ","} THEN 1500 ELSE 0)
        - (IF /\ ~c.has_sym
              /\ \/ c.val.w >= 1000000
                 \/ c.val.w >= 100000 /\ c.val.f = 0
           THEN 3000 ELSE 0)

\* What extract_total_amount returns: (value, confidence), the value None
\* or an amount.
NoTotal == [some |-> FALSE, w |-> 0, f |-> 0, conf |-> 0]

extract_total_amount(blocks, invoice_id) ==
    IF blocks = <<>> THEN NoTotal
    ELSE
    LET invoice_id_numbers == InvoiceIdNumbers(blocks, invoice_id)
        scored == SelectSeq(Candidates(blocks), LAMBDA c :
                      ~Excluded(c, invoice_id, invoice_id_numbers))
    IN  IF scored = <<>> THEN NoTotal
        ELSE
        LET best_i == CHOOSE i \in DOMAIN scored :
                         /\ \A j \in DOMAIN scored :
                               Score(scored[j], blocks)
                                  <= Score(scored[i], blocks)
                         /\ \A j \in 1..(i - 1) :
                               Score(scored[j], blocks)
                                  < Score(scored[i], blocks)
            best == scored[best_i]
            ocr_conf == blocks[best.blk].confidence
            label_score ==
                IF best.near_label THEN One
                ELSE IF TotalLabelBlocks(blocks) # {} THEN 7000 ELSE 5000
            regex_score == IF best.tok.sym THEN One ELSE 6000
        IN  [some |-> TRUE, w |-> best.val.w, f |-> best.val.f,
             conf |-> 2000 + (7 * Min3(ocr_conf, label_score, regex_score))
                                 \div 10]

\* No call of the extractor: the state of this component in the other
\* specifications.
ETIdle ==
    /\ tblocks = <<>>
    /\ tinvoice_id = NoId
    /\ tret = [called |-> FALSE, ret |-> NoTotal]

\* A call extract_total_amount(blocks, invoice_id).
CallExtractTotalAmount ==
    /\ ~tret.called
    /\ tret' = [called |-> TRUE,
                ret |-> extract_total_amount(tblocks, tinvoice_id)]
    /\ UNCHANGED <<tblocks, tinvoice_id>>
    /\ UNCHANGED etOthers

(***************************************************************************)
(* The external collaborators of one process_invoice run (main.py,         *)
(* extract_text.py) and the limiters in front of them.  A run is one step: *)
(* the handler never suspends.  Which branches a run takes depends on the  *)
(* document; here they are inputs of the run.                              *)
(***************************************************************************)
LlmMaxCalls == 30
LlmWindow == 60

CallClasses == {"ocr", "llm", "docai"}

\* The record of the latest run: what its caller received, the classes a
\* limiter refused, the classes whose limiter granted, and the classes
\* that were called before any grant of their limiter in the run.
NoRun == [outcome |-> "none", denied |-> {}, acquired |-> {}, ungated |-> {}]

\* BackpressureManager.__init__, before any run.
GateIdle ==
    /\ llm_limiter = <<>>
    /\ pending_llm = 0
    /\ grun = NoRun

\* BackpressureManager.can_process_llm() at clock t: whether the call may
\* proceed, and llm_limiter.calls afterwards.
can_process_llm(cs, t) ==
    IF pending_llm >= MaxQueueSize
    THEN [ok |-> FALSE, calls |-> cs]
    ELSE LET evicted == Evict(cs, t, LlmWindow)
         IN  IF Len(evicted) < LlmMaxCalls
             THEN [ok |-> TRUE, calls |-> Append(evicted, t)]
             ELSE [ok |-> FALSE, calls |-> evicted]

\* The inputs of a run: the job already has ocr_blocks; extract_text runs
\* local OCR (no cache hit, thin text layer); extract_text falls back to
\* Document AI; the early fallback fires; the batched call has fields.
RunInputs ==
    {inp \in [has_blocks : BOOLEAN, local_ocr : BOOLEAN, docai : BOOLEAN,
              early : BOOLEAN, batch : BOOLEAN] :
        inp.has_blocks => (~inp.local_ocr /\ ~inp.docai)}

\* One POST /process.
ProcessInvoiceRun(delay, inp) ==
    /\ IF inp.has_blocks
       THEN UNCHANGED <<rlVars, bpVars>>
       ELSE OcrAdmission(delay)
    /\ IF ~inp.has_blocks /\ ~bpret'.ok
       THEN \* HTTPException(429) before anything else runs
            /\ grun' = [outcome |-> report', denied |-> {"ocr"},
                        acquired |-> {}, ungated |-> {}]
            /\ UNCHANGED llm_limiter
       ELSE LET \* extract_text: local OCR and the Document AI fallback
                text_calls ==
                    IF inp.has_blocks THEN {}
                    ELSE (IF inp.local_ocr THEN {"ocr"} ELSE {})
                         \cup (IF inp.docai THEN {"docai"} ELSE {})
                acq1 == IF inp.has_blocks THEN {} ELSE {"ocr"}
                \* the early fallback calls extract_fields directly
                early_calls == IF inp.early THEN {"llm"} ELSE {}
                \* the batched call asks can_process_llm() first
                gate == can_process_llm(llm_limiter, now')
                acq2 == IF inp.batch /\ gate.ok THEN {"llm"} ELSE {}
            IN  /\ llm_limiter' = IF inp.batch THEN gate.calls
                                  ELSE llm_limiter
                /\ grun' = [outcome |-> "success",
                            denied |-> IF inp.batch /\ ~gate.ok
                                       THEN {"llm"} ELSE {},
                            acquired |-> acq1 \cup acq2,
                            ungated |-> (text_calls \ acq1)
                                        \cup early_calls]
    /\ UNCHANGED pending_llm
    /\ UNCHANGED gateOthers

(***************************************************************************)
(* retry_llm_call and retry_ocr_call (retry.py) around the functions the   *)
(* program passes to them, and the use extract_fields (llm_router.py)      *)
(* makes of the result.  Times are in milliseconds.                        *)
(***************************************************************************)
MaxRetries == 2
LlmInitialDelay == 500
OcrInitialDelay == 1000
LlmTimeout == 8000

\* What one attempt meets: a good answer, an answer that is not JSON (for
\* OCR: nothing usable), or an error of the library underneath.
AttemptOutcomes == {"ok", "malformed", "error"}

\* How long one attempt takes.
AttemptDurations == {1000, 9000}

\* The wrapped functions.  _call_groq (and the other providers) and
\* tesseract_extract catch every exception themselves and return None or
\* []; "callable" stands for a function that lets its exceptions out.
Wrapped == {"_call_groq", "tesseract_extract", "callable"}

\* What the wrapped function does with the outcome of the attempt:
\* "value", "none" (a return of None or []) or "raise".
CallWrapped(func, outcome) ==
    IF outcome = "ok" THEN "value"
    ELSE IF func = "callable" THEN "raise"
    ELSE "none"

InitialDelay(kind) == IF kind = "llm" THEN LlmInitialDelay ELSE OcrInitialDelay

\* No retried call under way.
RetryIdle ==
    /\ rkind = "llm"
    /\ rfunc = "_call_groq"
    /\ rpc = "idle"
    /\ rattempt = 0
    /\ rdelay = 0
    /\ rlog = <<>>
    /\ rslept = <<>>
    /\ relapsed = 0
    /\ rret = "pending"
    /\ xfret = "pending"

\* Entry of retry_llm_call / retry_ocr_call.
RetryStart(kind, func) ==
    /\ rkind = kind
    /\ rfunc = func
    /\ rpc = "call"
    /\ rattempt = 0
    /\ rdelay = InitialDelay(kind)
    /\ rlog = <<>>
    /\ rslept = <<>>
    /\ relapsed = 0
    /\ rret = "pending"
    /\ xfret = "pending"

\* One pass of `for attempt in range(max_retries + 1)`: the try, and the
\* except branch up to the sleep.
RetryAttempt(outcome, dur) ==
    /\ rpc = "call"
    /\ rlog' = Append(rlog, outcome)
    /\ relapsed' = relapsed + dur
    /\ LET r == CallWrapped(rfunc, outcome)
       IN  IF r # "raise"
           THEN rret' = r /\ rpc' = "done"
           ELSE IF rattempt < MaxRetries
           THEN rret' = rret /\ rpc' = "sleep"
           ELSE rret' = "none" /\ rpc' = "done"
    /\ UNCHANGED <<rkind, rfunc, rattempt, rdelay, rslept, xfret>>
    /\ UNCHANGED retryOthers

\* time.sleep(delay); delay *= 2; next attempt
RetrySleep ==
    /\ rpc = "sleep"
    /\ rslept' = Append(rslept, rdelay)
    /\ relapsed' = relapsed + rdelay
    /\ rdelay' = rdelay * 2
    /\ rattempt' = rattempt + 1
    /\ rpc' = "call"
    /\ UNCHANGED <<rkind, rfunc, rlog, rret, xfret>>
    /\ UNCHANGED retryOthers

\* extract_fields with one provider configured, after timeit(call_provider)
\* returned (result, elapsed): `if result:` keeps the result whatever
\* elapsed is; elapsed > timeout only changes the line printed.
ExtractFieldsReturn ==
    /\ rkind = "llm"
    /\ rpc = "done"
    /\ xfret = "pending"
    /\ xfret' = IF rret = "value" THEN "value" ELSE "none"
    /\ UNCHANGED <<rkind, rfunc, rpc, rattempt, rdelay, rlog, rslept,
                   relapsed, rret>>
    /\ UNCHANGED retryOthers

(***************************************************************************)
(* The export gate: validate_export_safety (erp_export.py) and the two     *)
(* export handlers of main.py, which hand it get_clean_invoice_data(result)*)
(* or nothing at all.                                                      *)
(***************************************************************************)
LowConfidence == 5000

\* The stored results: the review, duplicate and mismatch flags, the
\* confidence of each required field, and the required fields that have a
\* truthy value.
ExportRecords ==
    [meta : {TRUE}, needs_human_review : BOOLEAN, is_duplicate : BOOLEAN,
     arithmetic_mismatch : BOOLEAN,
     field_confidences : [Required -> {LowConfidence - 1, LowConfidence}],
     valued : SUBSET Required]

\* get_clean_invoice_data(result): the user-facing values only; the flags
\* and the confidences are not copied.
get_clean_invoice_data(result) ==
    [meta |-> FALSE, needs_human_review |-> FALSE, is_duplicate |-> FALSE,
     arithmetic_mismatch |-> FALSE,
     field_confidences |-> [f \in Required |-> 0],
     valued |-> result.valued]

\* validate_export_safety(invoice_data): the warnings, each a kind and the
\* field it names; a dict without a key reads as False, {} or 0.
validate_export_safety(invoice_data) ==
    LET conf(f) == IF invoice_data.meta
                   THEN invoice_data.field_confidences[f] ELSE 0
    IN  (IF invoice_data.meta /\ invoice_data.needs_human_review
         THEN {[kind |-> "review", field |-> ""]} ELSE {})
        \cup {[kind |-> "low_confidence", field |-> f] :
                f \in {g \in Required : conf(g) < LowConfidence}}
        \cup (IF invoice_data.meta /\ invoice_data.is_duplicate
              THEN {[kind |-> "duplicate", field |-> ""]} ELSE {})
        \cup (IF invoice_data.meta /\ invoice_data.arithmetic_mismatch
              THEN {[kind |-> "mismatch", field |-> ""]} ELSE {})
        \cup {[kind |-> "missing", field |-> f] :
                f \in Required \ invoice_data.valued}

NoExport == [path |-> "none", skip |-> FALSE, blocked |-> FALSE,
             reasons |-> {}]

\* No export asked for.
ExportIdle ==
    /\ xrec = [meta |-> TRUE, needs_human_review |-> FALSE,
               is_duplicate |-> FALSE, arithmetic_mismatch |-> FALSE,
               field_confidences |-> [f \in Required |-> LowConfidence],
               valued |-> Required]
    /\ xout = NoExport

\* GET /export/csv of a processed job.
ExportCsv(skip_safety_check) ==
    LET clean_data == get_clean_invoice_data(xrec)
        warnings == validate_export_safety(clean_data)
    IN  /\ xout.path = "none"
        /\ xout' = IF ~skip_safety_check /\ warnings # {}
                   THEN [path |-> "csv", skip |-> skip_safety_check,
                         blocked |-> TRUE, reasons |-> warnings]
                   ELSE [path |-> "csv", skip |-> skip_safety_check,
                         blocked |-> FALSE, reasons |-> {}]
        /\ UNCHANGED xrec
        /\ UNCHANGED exportOthers

\* GET /export/json of a processed job: no safety gate.
ExportJson ==
    /\ xout.path = "none"
    /\ xout' = [path |-> "json", skip |-> FALSE, blocked |-> FALSE,
                reasons |-> {}]
    /\ UNCHANGED xrec
    /\ UNCHANGED exportOthers

(***************************************************************************)
(* deduplication.py: compute_dedupe_hash, detect_near_duplicates and       *)
(* check_duplicates.  A digest is represented by the string it digests;    *)
(* the similarity rapidfuzz gives an existing record against the current   *)
(* one is part of that record, in 1/10000.                                 *)
(***************************************************************************)
SimilarityThreshold == 9500

\* all([vendor_id, invoice_id, total_amount, invoice_date])
AllFour(d) ==
    /\ Truthy(d.vendor_id)
    /\ Truthy(d.invoice_id)
    /\ Truthy(d.total_amount)
    /\ Truthy(d.invoice_date)

NoHash == [some |-> FALSE, of |-> <<>>]

\* sha256(f"{vendor_id}|{invoice_id}|{total_amount}|{invoice_date}")
Sha256Of(d) ==
    [some |-> TRUE,
     of |-> <<d.vendor_id, d.invoice_id, d.total_amount, d.invoice_date>>]

\* A variant that tests the four arguments against None only.
compute_dedupe_hash_NotNone(d) ==
    IF \/ d.vendor_id = NoneV
       \/ d.invoice_id = NoneV
       \/ d.total_amount = NoneV
       \/ d.invoice_date = NoneV
    THEN NoHash
    ELSE Sha256Of(d)

compute_dedupe_hash(d) ==
    IF ~AllFour(d) THEN NoHash ELSE Sha256Of(d)

\* The four identity fields of a dict.
Identity(d) ==
    [vendor_id |-> d.vendor_id, invoice_id |-> d.invoice_id,
     total_amount |-> d.total_amount, invoice_date |-> d.invoice_date]

\* sorted(near_duplicates, key=lambda x: x[1], reverse=True): a stable
\* sort, highest similarity first.
RECURSIVE SortedDesc(_)
SortedDesc(q) ==
    IF q = <<>> THEN <<>>
    ELSE LET rest == SortedDesc(SubSeq(q, 1, Len(q) - 1))
             x == q[Len(q)]
             keep == SelectSeq(rest, LAMBDA e : e.similarity >= x.similarity)
             after == SelectSeq(rest, LAMBDA e : e.similarity < x.similarity)
         IN  keep \o <<x>> \o after

\* detect_near_duplicates without the skip of exact matches
detect_near_duplicates_NoSkip(invoice_data, existing_invoices) ==
    IF ~AllFour(invoice_data) THEN <<>>
    ELSE LET idx == [i \in 1..Len(existing_invoices) |-> i]
             hit(i) ==
                 /\ AllFour(existing_invoices[i])
                 /\ existing_invoices[i].similarity >= SimilarityThreshold
             hits == SelectSeq(idx, hit)
         IN  SortedDesc([n \in 1..Len(hits) |->
                           [job_id |-> existing_invoices[hits[n]].job_id,
                            similarity |->
                                existing_invoices[hits[n]].similarity]])

\* detect_near_duplicates(invoice_data, existing_invoices)
detect_near_duplicates(invoice_data, existing_invoices) ==
    IF ~AllFour(invoice_data) THEN <<>>
    ELSE LET idx == [i \in 1..Len(existing_invoices) |-> i]
             hit(i) ==
                 /\ AllFour(existing_invoices[i])
                 /\ Identity(existing_invoices[i]) # Identity(invoice_data)
                 /\ existing_invoices[i].similarity >= SimilarityThreshold
             hits == SelectSeq(idx, hit)
         IN  SortedDesc([n \in 1..Len(hits) |->
                           [job_id |-> existing_invoices[hits[n]].job_id,
                            similarity |->
                                existing_invoices[hits[n]].similarity]])

\* check_duplicates(invoice_data, existing_hashes, existing_invoices),
\* with the hash it computed on the way.
check_duplicates(invoice_data, existing_hashes, existing_invoices) ==
    LET dedupe_hash == compute_dedupe_hash(invoice_data)
        is_exact_duplicate ==
            dedupe_hash.some /\ dedupe_hash \in existing_hashes
        near_duplicates ==
            IF existing_invoices # <<>> /\ ~is_exact_duplicate
            THEN detect_near_duplicates(invoice_data, existing_invoices)
            ELSE <<>>
    IN  [called |-> TRUE, dedupe_hash |-> dedupe_hash,
         is_exact_duplicate |-> is_exact_duplicate,
         is_near_duplicate |-> Len(near_duplicates) > 0,
         near_duplicates |-> near_duplicates]

NoCheck ==
    [called |-> FALSE, dedupe_hash |-> NoHash, is_exact_duplicate |-> FALSE,
     is_near_duplicate |-> FALSE, near_duplicates |-> <<>>]

\* An invoice with its four identity fields.
Invoice(vendor_id, invoice_id, total_amount, invoice_date) ==
    [vendor_id |-> vendor_id, invoice_id |-> invoice_id,
     total_amount |-> total_amount, invoice_date |-> invoice_date]

\* No duplicate check asked for.
DedupeIdle ==
    /\ dinv = Invoice(NoneV, NoneV, NoneV, NoneV)
    /\ dhashes = {}
    /\ dexisting = <<>>
    /\ dret = NoCheck

\* A call check_duplicates(invoice_data, existing_hashes, existing_invoices).
CallCheckDuplicates ==
    /\ ~dret.called
    /\ dret' = check_duplicates(dinv, dhashes, dexisting)
    /\ UNCHANGED <<dinv, dhashes, dexisting>>
    /\ UNCHANGED dedupeOthers

(***************************************************************************)
(* Step 2 of process_invoice (main.py): the seven extractors of            *)
(* heuristics.py called one after the other on the OCR blocks, and the     *)
(* scoring of the invoice ID and of the total.  extract_invoice_id and     *)
(* extract_total_amount are computed on the blocks; the other extractors   *)
(* only find something or nothing.                                         *)
(***************************************************************************)
\* The values that go from one call to the next: None, an identifier (the
\* token it was read from), an amount, some other value, and a name that
\* is not bound yet.
NoTok == Word("")
NoneVal == [k |-> "none", tok |-> NoTok, w |-> 0, f |-> 0]
IdVal(tok) == [k |-> "id", tok |-> tok, w |-> 0, f |-> 0]
AmountVal(w, f) == [k |-> "amount", tok |-> NoTok, w |-> w, f |-> f]
OtherVal == [k |-> "other", tok |-> NoTok, w |-> 0, f |-> 0]
Unbound == [k |-> "unbound", tok |-> NoTok, w |-> 0, f |-> 0]

\* INVOICE_ID_STRICT on one token: a run of five or more letters or digits
\* between word boundaries (the word without its colon, or the digits).
\* INVOICE_ID_RELAXED finds nothing in these tokens that the strict
\* pattern has not found.
InvoiceIdStrictMatches(tok) ==
    \/ tok.kind = "digits" /\ Len(IntStr(tok.groups[1])) >= 5
    \/ tok.w \in {"invoice", "total:"}

\* The first element of a non-empty set of indices.
MinOf(S) == CHOOSE i \in S : \A j \in S : i <= j

\* A variant that reports the floor of the confidence formula, 0.2, when
\* nothing is found.
extract_invoice_id_Floor(blocks) ==
    [v |-> NoneVal, conf |-> 2000, kw |-> {}]

\* extract_invoice_id(blocks): (value, confidence, reason), the reason as
\* the set of Keywords it contains.  A block with an invoice-number label
\* holds the number behind the label here, so strategy 1 always ends in
\* the label block itself.
extract_invoice_id(blocks) ==
    IF blocks = <<>> THEN [v |-> NoneVal, conf |-> 0, kw |-> {}]
    ELSE
    LET label_blocks == {i \in DOMAIN blocks : HasInvoiceNoLabel(blocks[i])}
        strict_blocks ==
            {i \in DOMAIN blocks :
                \E k \in DOMAIN blocks[i].tokens :
                    InvoiceIdStrictMatches(blocks[i].tokens[k])}
        conf(ocr_c, label_score, regex_score) ==
            2000 + (7 * Min3(ocr_c, label_score, regex_score)) \div 10
    IN  IF label_blocks # {}
        THEN LET lb == blocks[MinOf(label_blocks)]
                 k == MinOf({j \in 1..(Len(lb.tokens) - 1) :
                               /\ lb.tokens[j].w = "invoice"
                               /\ lb.tokens[j + 1].w = "no:"})
             IN  [v |-> IdVal(lb.tokens[k + 2]),
                  conf |-> conf(lb.confidence, One, One),
                  kw |-> {"strict", "label"}]
        ELSE IF strict_blocks # {}
        THEN LET b == blocks[MinOf(strict_blocks)]
                 k == MinOf({j \in DOMAIN b.tokens :
                               InvoiceIdStrictMatches(b.tokens[j])})
             IN  [v |-> IdVal(b.tokens[k]),
                  conf |-> conf(b.confidence, 5000, One),
                  kw |-> {"strict"}]
        ELSE [v |-> NoneVal, conf |-> 0, kw |-> {"found"}]

\* The invoice_id argument of extract_total_amount for a value: an
\* identifier without digits excludes nothing.
IdArg(v) ==
    IF v.k = "id" /\ v.tok.kind = "digits" THEN IdOf(v.tok.groups[1])
    ELSE NoId

\* extract_total_amount(blocks, invoice_id=...) as (value, confidence,
\* reason).
TotalResult(blocks, arg) ==
    LET r == extract_total_amount(blocks, IdArg(arg))
    IN  [v |-> IF r.some THEN AmountVal(r.w, r.f) ELSE NoneVal,
         conf |-> r.conf,
         kw |-> IF blocks # <<>> /\ ~r.some THEN {"found"} ELSE {}]

\* An order with the total first.
HeurOrder_TotalFirst ==
    <<"extract_total_amount", "extract_invoice_id", "extract_date",
      "extract_currency", "extract_vendor_name", "extract_tax_amount",
      "extract_subtotal">>

\* The calls of step 2 in the order of the code.
HeurOrder ==
    <<"extract_invoice_id", "extract_date", "extract_total_amount",
      "extract_currency", "extract_vendor_name", "extract_tax_amount",
      "extract_subtotal">>

\* The first element of the result an earlier call of fn returned, or
\* Unbound.
ResultOf(log, fn) ==
    LET done == {j \in DOMAIN log : log[j].fn = fn}
    IN  IF done = {} THEN Unbound ELSE log[MinOf(done)].ret

\* What a call is given besides the blocks.
ArgOf(log, fn) ==
    CASE fn = "extract_total_amount" -> ResultOf(log, "extract_invoice_id")
      [] fn \in {"extract_currency", "extract_tax_amount",
                 "extract_subtotal"} ->
           ResultOf(log, "extract_total_amount")
      [] OTHER -> NoneVal

\* No run of step 2.
HeurIdle ==
    /\ hblocks = <<>>
    /\ hlog = <<>>
    /\ hscore = [done |-> FALSE, invoice_id |-> 0, total_amount |-> 0]

\* The next call of step 2.
HeurStep ==
    /\ Len(hlog) < Len(HeurOrder)
    /\ LET fn == HeurOrder[Len(hlog) + 1]
           arg == ArgOf(hlog, fn)
       IN  \E found \in BOOLEAN :
             LET res ==
                   CASE fn = "extract_invoice_id" ->
                          extract_invoice_id(hblocks)
                     [] fn = "extract_total_amount" ->
                          TotalResult(hblocks, arg)
                     [] fn = "extract_currency" ->
                          [v |-> OtherVal, conf |-> 5000, kw |-> {"found"}]
                     [] OTHER ->
                          IF found /\ hblocks # <<>>
                          THEN [v |-> OtherVal, conf |-> 8000, kw |-> {}]
                          ELSE [v |-> NoneVal, conf |-> 0, kw |-> {}]
             IN  hlog' = Append(hlog, [fn |-> fn, arg |-> arg,
                                       ret |-> res.v, conf |-> res.conf,
                                       kw |-> res.kw])
    /\ UNCHANGED <<hblocks, hscore>>
    /\ UNCHANGED heurOthers

\* `text_str.lower() in b.text.lower()` for the value handed to
\* compute_field_confidence: the identifier, or str() of the float.
HoldsValue(b, v) ==
    \E k \in DOMAIN b.tokens :
        LET tok == b.tokens[k]
        IN  \/ v.k = "id" /\ tok = v.tok
            \/ /\ v.k = "amount"
               /\ tok.kind = "amount" /\ tok.dec = "."
               /\ tok.groups = <<v.w>> /\ tok.frac = v.f

\* Step 3 for the invoice ID and the total: compute_field_confidence on
\* the results of step 2.
HeurScore ==
    /\ Len(hlog) = Len(HeurOrder)
    /\ ~hscore.done
    /\ LET entry(fn) == hlog[MinOf({j \in DOMAIN hlog : hlog[j].fn = fn})]
           view(v) == [i \in DOMAIN hblocks |->
                         [has |-> HoldsValue(hblocks[i], v),
                          confidence |-> hblocks[i].confidence]]
           score(e) ==
               compute_field_confidence(
                   IF e.ret.k = "none" THEN "none" ELSE "text",
                   view(e.ret), e.conf, e.kw, FALSE).conf
       IN  hscore' = [done |-> TRUE,
                      invoice_id |-> score(entry("extract_invoice_id")),
                      total_amount |-> score(entry("extract_total_amount"))]
    /\ UNCHANGED <<hblocks, hlog>>
    /\ UNCHANGED heurOthers

(***************************************************************************)
(* Several documents through process_invoice, one after the other.  The    *)
(* SafetyGuard is a singleton (safety.py 206-210) and its llm_call_count   *)
(* is never reset, so it is the one counter of all the runs.  A document   *)
(* is what the extractors find in it and what the external model answers   *)
(* when asked about it; its record here is the four result tuples that     *)
(* process_invoice holds after the early fallback, from which the rest of  *)
(* the run is computed.                                                    *)
(***************************************************************************)
DocFound == {{}, {"invoice_id"}, Required}

DocResponses ==
    {NoResponse,
     [none |-> FALSE, invoice_id |-> Text(273), invoice_date |-> Text(1),
      vendor_name |-> Text(1), total_amount |-> Num(54446),
      amount_tax |-> NoneV]}

Documents == {[found |-> fs, resp |-> r] : fs \in DocFound, r \in DocResponses}

\* What the extractors return on a document
HeurOf(doc) ==
    [f \in Fields |->
        IF f \in doc.found
        THEN CHOOSE c \in HeurChoices(f) :
                \A c2 \in HeurChoices(f) : c2.conf <= c.conf
        ELSE NotFound]

\* main.py 261-292: the early fallback on the result tuples, with the
\* counter of the SafetyGuard and the answer r of the external model.
EarlyFallback(results, count, r) ==
    LET heuristic_success ==
            Cardinality({f \in Required : results[f].v.k # "none"})
        early_llm_fields ==
            SelectSeq(RequiredOrder, LAMBDA f : ~Truthy(results[f].v))
        asked == /\ heuristic_success < 2
                 /\ early_llm_fields # <<>>
                 /\ count < MaxLlmCallsPerJob
    IN  IF asked /\ ~r.none
        THEN [asked |-> TRUE, count |-> count + 1,
              results |-> [f \in Fields |->
                  IF f \in Required /\ Truthy(r[f])
                  THEN [v |-> r[f], conf |-> 7000, kw |-> {}]
                  ELSE results[f]]]
        ELSE [asked |-> asked, count |-> count, results |-> results]

DocsIdle == docrec = [d \in Documents |-> {}]

\* One run of process_invoice on a document (with OCR blocks), up to the
\* end of the early fallback.
ProcessDocument(doc) ==
    LET e == EarlyFallback(HeurOf(doc), llm_call_count, doc.resp)
    IN  /\ llm_call_count' = e.count
        /\ docrec' = [docrec EXCEPT ![doc] = @ \cup {e.results}]
        /\ UNCHANGED <<jblocks, jheur, jresult, joriginal, runs, nverified,
                       presult, audit, vreq, runVars>>
        /\ UNCHANGED <<rlVars, cfVars, bpVars, etVars, gateVars, retryVars,
                       exportVars, dedupeVars, heurVars, waitVars, dateVars,
                       storeVars>>

(***************************************************************************)
(* RateLimiter.wait_time() (backpressure.py 41-53), called by a thread     *)
(* that is not inside acquire().  The method holds the lock from its first *)
(* statement to its return and reads the clock once.                       *)
(***************************************************************************)
NoWaitCall == [thread |-> 0, v |-> 0, at |-> 0, grants |-> 0]

WaitIdle == wret = NoWaitCall

\* wait_time() by thread t: its return value, with the clock reading and
\* the number of grants so far.
WaitTime(t) ==
    /\ pc[t] = "idle"
    /\ LockIsFree
    /\ wret' = [thread |-> t,
                v |-> wait_time(calls, now, max_calls, time_window),
                at |-> now, grants |-> Len(granted)]
    /\ UNCHANGED <<rlVars, cfVars, bpVars, piVars, etVars, gateVars,
                   retryVars, exportVars, dedupeVars, heurVars, docsVars,
                   dateVars, storeVars>>

(***************************************************************************)
(* extract_date(blocks, "invoice") (heuristics.py 248-416).  A block is    *)
(* the kind of date text it holds and its top edge; no block here matches  *)
(* a date label, so label_blocks is empty and the search starts with the   *)
(* global scan.  The clock is what datetime.now() reads during the call.   *)
(***************************************************************************)
\* "2031-05-06", "March 15, 2024", "March 2024" (no day), "Qty 12" (digits
\* but no date) and "Thank you" (no digit)
DateBlocks ==
    {[form |-> "iso", y |-> 2031, m |-> 5, d |-> 6, top |-> 10],
     [form |-> "iso", y |-> 2032, m |-> 1, d |-> 2, top |-> 20],
     [form |-> "written_short", y |-> 2024, m |-> 3, d |-> 15, top |-> 30],
     [form |-> "month_year", y |-> 2024, m |-> 3, d |-> 0, top |-> 40],
     [form |-> "digits", y |-> 0, m |-> 0, d |-> 12, top |-> 50],
     [form |-> "words", y |-> 0, m |-> 0, d |-> 0, top |-> 60]}

\* datetime.now(): the sixth or seventh of November 2026, or a year later
Clocks == {[y |-> yy, m |-> 11, d |-> dd] : yy \in {2026, 2027}, dd \in {6, 7}}

NoDate == [some |-> FALSE, y |-> 0, m |-> 0, d |-> 0]
DateOf(y, m, d) == [some |-> TRUE, y |-> y, m |-> m, d |-> d]

\* date_parser.parse(text, fuzzy=True, default=today): the fields the text
\* does not give are taken from the default.
DateParse(b, today) ==
    DateOf(IF b.y = 0 THEN today.y ELSE b.y,
           IF b.m = 0 THEN today.m ELSE b.m,
           IF b.d = 0 THEN today.d ELSE b.d)

\* min_date <= parsed <= max_date, with max_date the end of today.year + 5
InDateRange(p, today) == p.y >= 2000 /\ p.y <= today.y + 5

\* The candidates one strategy adds, in block order:
\* (strategy, iso_date, block, confidence, reason).
DateCandidates(blocks, today, forms, strategy) ==
    LET idx == [i \in 1..Len(blocks) |-> i]
        hit(i) == /\ blocks[i].form \in forms
                  /\ InDateRange(DateParse(blocks[i], today), today)
        conf(b) == IF strategy = "fuzzy_month" THEN 7000
                   ELSE IF strategy = "fuzzy_all" THEN 6000
                   ELSE IF b.form = "iso" THEN 8000 ELSE 7500
        reason(b) == IF strategy = "fuzzy_month"
                     THEN "Fuzzy parsed date with month name"
                     ELSE IF strategy = "fuzzy_all"
                     THEN "Fuzzy parsed date from block text"
                     ELSE IF b.form = "iso"
                     THEN "Found iso date in document"
                     ELSE "Found written_short date in document"
    IN  [n \in 1..Len(SelectSeq(idx, hit)) |->
            LET i == SelectSeq(idx, hit)[n]
            IN  [date |-> DateParse(blocks[i], today), top |-> blocks[i].top,
                 conf |-> conf(blocks[i]),
                 reason |-> reason(blocks[i])]]

NoDateFound == [v |-> NoDate, conf |-> 0, reason |-> "No invoice date found"]

extract_date(blocks, today) ==
    IF blocks = <<>>
    THEN [v |-> NoDate, conf |-> 0, reason |-> "No blocks available"]
    ELSE
    LET s2 == DateCandidates(blocks, today, {"iso", "written_short"},
                             "global_regex")
        s3 == DateCandidates(blocks, today, {"month_year"}, "fuzzy_month")
        s4 == DateCandidates(blocks, today,
                  {"iso", "written_short", "month_year", "digits"},
                  "fuzzy_all")
        candidates == IF s2 # <<>> THEN s2 ELSE IF s3 # <<>> THEN s3 ELSE s4
    IN  IF candidates = <<>> THEN NoDateFound
        ELSE
        \* candidates.sort(key=(-confidence, top)), a stable sort
        LET first == CHOOSE i \in DOMAIN candidates :
                        /\ \A j \in DOMAIN candidates :
                              \/ candidates[j].conf < candidates[i].conf
                              \/ /\ candidates[j].conf = candidates[i].conf
                                 /\ candidates[j].top >= candidates[i].top
                        /\ \A j \in 1..(i - 1) :
                              \/ candidates[j].conf # candidates[i].conf
                              \/ candidates[j].top # candidates[i].top
        IN  [v |-> candidates[first].date, conf |-> candidates[first].conf,
             reason |-> candidates[first].reason]

DateIdle ==
    /\ date_blocks = <<>>
    /\ date_runs = {}

\* One more run of the extractor on the blocks, at some clock reading.
CallExtractDate(today) ==
    /\ date_runs' = date_runs \cup {extract_date(date_blocks, today)}
    /\ UNCHANGED date_blocks
    /\ UNCHANGED dateOthers

(***************************************************************************)
(* Steps 5.5 and 5.6 of process_invoice (main.py 572-584): the dedupe hash *)
(* of the extracted invoice and its duplicate flags.                       *)
(***************************************************************************)
\* What was extracted from the documents that get processed: an invoice,
\* a second one that differs in its number only, one without a known
\* vendor, one with a total of zero and one from another day.
StoredInvoices ==
    {Invoice(Text(1), Text(273), Num(54446), Text(1)),
     Invoice(Text(1), Text(274), Num(54446), Text(1)),
     Invoice(NoneV, Text(273), Num(54446), Text(1)),
     Invoice(Text(1), Text(273), Num(0), Text(1)),
     Invoice(Text(1), Text(273), Num(54446), Text(2))}

\* A variant that looks the hash up among the results stored so far
DuplicateStep_Lookup(d, earlier) ==
    LET dedupe_hash == IF AllFour(d) THEN Sha256Of(d) ELSE NoHash
    IN  [dedupe_hash |-> dedupe_hash,
         is_duplicate |->
             /\ dedupe_hash.some
             /\ \E i \in 1..Len(earlier) :
                   earlier[i].dedupe_hash = dedupe_hash,
         is_near_duplicate |-> FALSE,
         near_duplicates |-> <<>>]

\* dedupe_hash, is_duplicate, is_near_duplicate and near_duplicates of the
\* InvoiceExtract; earlier is the results of the runs before this one.
DuplicateStep(d, earlier) ==
    LET dedupe_hash == IF AllFour(d) THEN Sha256Of(d) ELSE NoHash
        near_duplicates == <<>>
    IN  [dedupe_hash |-> dedupe_hash,
         is_duplicate |-> FALSE,
         is_near_duplicate |-> FALSE,
         near_duplicates |-> SubSeq(near_duplicates, 1,
                                    Min2(5, Len(near_duplicates)))]

StoreIdle == processed = <<>>

\* process_invoice on a document whose extraction gives invoice d.
ProcessInvoice(d) ==
    /\ Len(processed) < MaxProcessed
    /\ LET r == DuplicateStep(d, processed)
       IN  processed' = Append(processed,
               [invoice |-> d, dedupe_hash |-> r.dedupe_hash,
                is_duplicate |-> r.is_duplicate,
                is_near_duplicate |-> r.is_near_duplicate,
                near_duplicates |-> r.near_duplicates])
    /\ UNCHANGED storeOthers

(***************************************************************************)
(* SpecConc: any number of threads call acquire() on one limiter.          *)
(***************************************************************************)
InitConc ==
    /\ \E mc \in 1..MaxCallsBound, tw \in 1..MaxWindow : RLInit(mc, tw)
    /\ CfIdle
    /\ BPIdle
    /\ PIIdle
    /\ ETIdle
    /\ GateIdle
    /\ StoreIdle
    /\ DateIdle
    /\ WaitIdle
    /\ DocsIdle
    /\ HeurIdle
    /\ DedupeIdle
    /\ ExportIdle
    /\ RetryIdle

NextConc ==
    \/ \E t \in Threads : AcqLock(t)
    \/ \E t \in Threads : AcqEvict(t)
    \/ \E t \in Threads : AcqCheck(t)
    \/ \E t \in Threads : AcqAppend(t)
    \/ Tick(1, MaxTime)

SpecConc == InitConc /\ [][NextConc]_vars

(***************************************************************************)
(* SpecRL: the limiter of the window test, max_calls=2 and a 60 s window,  *)
(* with a simulated clock that jumps by 30, 59 or 61 seconds.              *)
(***************************************************************************)
RLSteps == {30, 59, 61}

InitRL ==
    /\ RLInit(2, 60)
    /\ CfIdle
    /\ BPIdle
    /\ PIIdle
    /\ ETIdle
    /\ GateIdle
    /\ StoreIdle
    /\ DateIdle
    /\ WaitIdle
    /\ DocsIdle
    /\ HeurIdle
    /\ DedupeIdle
    /\ ExportIdle
    /\ RetryIdle

NextRL ==
    \/ \E t \in Threads : AcqLock(t)
    \/ \E t \in Threads : AcqEvict(t)
    \/ \E t \in Threads : AcqCheck(t)
    \/ \E t \in Threads : AcqAppend(t)
    \/ \E d \in RLSteps : Tick(d, RLMaxTime)

SpecRL == InitRL /\ [][NextRL]_vars

(***************************************************************************)
(* SpecConf: one call of a scoring function on arguments from the grid.    *)
(***************************************************************************)
InitConf ==
    /\ RLInit(2, 60)
    /\ CfIdle
    /\ BPIdle
    /\ PIIdle
    /\ ETIdle
    /\ GateIdle
    /\ StoreIdle
    /\ DateIdle
    /\ WaitIdle
    /\ DocsIdle
    /\ HeurIdle
    /\ DedupeIdle
    /\ ExportIdle
    /\ RetryIdle

NextConf ==
    \/ CallComputeConfidence
    \/ CallComputeFieldConfidence
    \/ CallShouldUseLlm

SpecConf == InitConf /\ [][NextConf]_vars

(***************************************************************************)
(* SpecBP: /process requests arrive at the OCR admission check of one      *)
(* BackpressureManager (20 OCR calls per 60 s) while the clock advances.   *)
(***************************************************************************)
InitBP ==
    /\ RLInit(OcrMaxCalls, OcrWindow)
    /\ CfIdle
    /\ BPIdle
    /\ PIIdle
    /\ ETIdle
    /\ GateIdle
    /\ StoreIdle
    /\ DateIdle
    /\ WaitIdle
    /\ DocsIdle
    /\ HeurIdle
    /\ DedupeIdle
    /\ ExportIdle
    /\ RetryIdle

NextBP ==
    \/ \E delay \in 0..MaxDelay : ProcessOcrAdmission(delay)
    \/ Tick(OcrWindow, RLMaxTime)

SpecBP == InitBP /\ [][NextBP]_vars

(***************************************************************************)
(* SpecPI: one job is processed, any number of times.                      *)
(***************************************************************************)
InitPI ==
    /\ RLInit(OcrMaxCalls, OcrWindow)
    /\ CfIdle
    /\ BPIdle
    /\ JobInit
    /\ RunIdle
    /\ ETIdle
    /\ GateIdle
    /\ StoreIdle
    /\ DateIdle
    /\ WaitIdle
    /\ DocsIdle
    /\ HeurIdle
    /\ DedupeIdle
    /\ ExportIdle
    /\ RetryIdle

NextPI ==
    \/ PStart
    \/ PEarly
    \/ PScore
    \/ PCollect
    \/ PBatch
    \/ PStore

SpecPI == InitPI /\ [][NextPI]_vars

(***************************************************************************)
(* SpecReview: the job of a document without OCR blocks is processed,      *)
(* corrected and rolled back.                                              *)
(***************************************************************************)
InitReview ==
    /\ InitPI
    /\ jblocks = <<>>
    /\ llm_call_count = 0

NextReview ==
    \/ NextPI
    \/ \E f \in Required : \E v \in CorrectionValues(f) :
          \E user_id \in UserIds : Verify(f, v, user_id)
    \/ \E user_id \in UserIds : Rollback(user_id)

SpecReview == InitReview /\ [][NextReview]_vars

(***************************************************************************)
(* SpecET: extract_total_amount is called once on a list of blocks and an  *)
(* invoice identifier.                                                     *)
(***************************************************************************)
TotalBlockLists ==
    UNION {[1..n -> TotalBlocks] : n \in 0..MaxTotalBlocks}

InitET ==
    /\ RLInit(OcrMaxCalls, OcrWindow)
    /\ CfIdle
    /\ BPIdle
    /\ PIIdle
    /\ tblocks \in TotalBlockLists
    /\ tinvoice_id \in TotalIds
    /\ tret = [called |-> FALSE, ret |-> NoTotal]
    /\ GateIdle
    /\ StoreIdle
    /\ DateIdle
    /\ WaitIdle
    /\ DocsIdle
    /\ HeurIdle
    /\ DedupeIdle
    /\ ExportIdle
    /\ RetryIdle

NextET == CallExtractTotalAmount

SpecET == InitET /\ [][NextET]_vars

(***************************************************************************)
(* SpecGate: /process requests arrive one after another at one             *)
(* BackpressureManager, all within one window of its limiters.             *)
(***************************************************************************)
InitGate ==
    /\ RLInit(OcrMaxCalls, OcrWindow)
    /\ CfIdle
    /\ BPIdle
    /\ PIIdle
    /\ ETIdle
    /\ GateIdle
    /\ StoreIdle
    /\ DateIdle
    /\ WaitIdle
    /\ DocsIdle
    /\ HeurIdle
    /\ DedupeIdle
    /\ ExportIdle
    /\ RetryIdle

NextGate == \E inp \in RunInputs : ProcessInvoiceRun(0, inp)

SpecGate == InitGate /\ [][NextGate]_vars

(***************************************************************************)
(* SpecRetry: one retried call, of a provider function, of the OCR         *)
(* function or of a function that raises, and extract_fields' return.      *)
(***************************************************************************)
InitRetry ==
    /\ RLInit(OcrMaxCalls, OcrWindow)
    /\ CfIdle
    /\ BPIdle
    /\ PIIdle
    /\ ETIdle
    /\ GateIdle
    /\ StoreIdle
    /\ DateIdle
    /\ WaitIdle
    /\ DocsIdle
    /\ HeurIdle
    /\ DedupeIdle
    /\ ExportIdle
    /\ \E kind \in {"llm", "ocr"} : \E func \in Wrapped :
          /\ (func = "_call_groq" => kind = "llm")
          /\ (func = "tesseract_extract" => kind = "ocr")
          /\ RetryStart(kind, func)

NextRetry ==
    \/ \E outcome \in AttemptOutcomes : \E dur \in AttemptDurations :
          RetryAttempt(outcome, dur)
    \/ RetrySleep
    \/ ExtractFieldsReturn

SpecRetry == InitRetry /\ [][NextRetry]_vars

(***************************************************************************)
(* SpecExport: one export of a stored result, as CSV or as JSON.           *)
(***************************************************************************)
InitExport ==
    /\ RLInit(OcrMaxCalls, OcrWindow)
    /\ CfIdle
    /\ BPIdle
    /\ PIIdle
    /\ ETIdle
    /\ GateIdle
    /\ StoreIdle
    /\ DateIdle
    /\ WaitIdle
    /\ DocsIdle
    /\ HeurIdle
    /\ DedupeIdle
    /\ RetryIdle
    /\ xrec \in ExportRecords
    /\ xout = NoExport

NextExport ==
    \/ \E skip_safety_check \in BOOLEAN : ExportCsv(skip_safety_check)
    \/ ExportJson

SpecExport == InitExport /\ [][NextExport]_vars

(***************************************************************************)
(* SpecHash: check_duplicates on an invoice whose identity fields are      *)
(* None, empty or zero, or valued, against a set of known hashes.          *)
(***************************************************************************)
HashInvoices ==
    {Invoice(v, i, t, d) :
        v \in {NoneV, EmptyV, Text(1)},
        i \in {NoneV, EmptyV, Text(273), Text(274)},
        t \in {NoneV, Num(0), Num(54446)},
        d \in {NoneV, EmptyV, Text(1)}}

KnownHashes ==
    {Sha256Of(Invoice(Text(1), Text(273), Num(54446), Text(1))),
     Sha256Of(Invoice(Text(1), Text(274), Num(54446), Text(1))),
     Sha256Of(Invoice(Text(1), EmptyV, Num(0), Text(1)))}

InitHash ==
    /\ RLInit(OcrMaxCalls, OcrWindow)
    /\ CfIdle
    /\ BPIdle
    /\ PIIdle
    /\ ETIdle
    /\ GateIdle
    /\ StoreIdle
    /\ DateIdle
    /\ WaitIdle
    /\ DocsIdle
    /\ HeurIdle
    /\ RetryIdle
    /\ ExportIdle
    /\ dinv \in HashInvoices
    /\ dhashes \in SUBSET KnownHashes
    /\ dexisting = <<>>
    /\ dret = NoCheck

NextHash == CallCheckDuplicates

SpecHash == InitHash /\ [][NextHash]_vars

(***************************************************************************)
(* SpecDedupe: check_duplicates on an invoice against up to MaxExisting    *)
(* existing invoices: the same one again, one with a missing field, and    *)
(* others at a similarity below, at and above the threshold.               *)
(***************************************************************************)
DedupeInvoice == Invoice(Text(1), Text(273), Num(54446), Text(1))

ExistingKinds ==
    {[same |-> TRUE, complete |-> TRUE, similarity |-> 10000],
     [same |-> FALSE, complete |-> FALSE, similarity |-> 9800],
     [same |-> FALSE, complete |-> TRUE, similarity |-> 9499],
     [same |-> FALSE, complete |-> TRUE, similarity |-> 9500],
     [same |-> FALSE, complete |-> TRUE, similarity |-> 9800]}

\* The existing invoice of a kind, stored under job_id.
Existing(kind, job_id) ==
    [vendor_id |-> IF kind.complete THEN Text(1) ELSE NoneV,
     invoice_id |-> IF kind.same THEN Text(273) ELSE Text(274),
     total_amount |-> Num(54446), invoice_date |-> Text(1),
     similarity |-> kind.similarity, job_id |-> job_id]

InitDedupe ==
    /\ RLInit(OcrMaxCalls, OcrWindow)
    /\ CfIdle
    /\ BPIdle
    /\ PIIdle
    /\ ETIdle
    /\ GateIdle
    /\ StoreIdle
    /\ DateIdle
    /\ WaitIdle
    /\ DocsIdle
    /\ HeurIdle
    /\ RetryIdle
    /\ ExportIdle
    /\ dinv \in {DedupeInvoice, Invoice(Text(1), Text(273), NoneV, Text(1))}
    /\ dhashes \in {{}, {Sha256Of(DedupeInvoice)}}
    /\ \E n \in 0..MaxExisting : \E ks \in [1..n -> ExistingKinds] :
          dexisting = [i \in 1..n |-> Existing(ks[i], i)]
    /\ dret = NoCheck

NextDedupe == CallCheckDuplicates

SpecDedupe == InitDedupe /\ [][NextDedupe]_vars

(***************************************************************************)
(* SpecHeur: steps 2 and 3 of one run on a list of blocks.                 *)
(***************************************************************************)
InitHeur ==
    /\ RLInit(OcrMaxCalls, OcrWindow)
    /\ CfIdle
    /\ BPIdle
    /\ PIIdle
    /\ ETIdle
    /\ GateIdle
    /\ StoreIdle
    /\ DateIdle
    /\ WaitIdle
    /\ DocsIdle
    /\ RetryIdle
    /\ ExportIdle
    /\ DedupeIdle
    /\ hblocks \in TotalBlockLists
    /\ hlog = <<>>
    /\ hscore = [done |-> FALSE, invoice_id |-> 0, total_amount |-> 0]

NextHeur == HeurStep \/ HeurScore

SpecHeur == InitHeur /\ [][NextHeur]_vars

(***************************************************************************)
(* SpecDocs: documents are processed one after the other by one server     *)
(* process.                                                                *)
(***************************************************************************)
InitDocs ==
    /\ RLInit(OcrMaxCalls, OcrWindow)
    /\ CfIdle
    /\ BPIdle
    /\ PIIdle
    /\ ETIdle
    /\ GateIdle
    /\ StoreIdle
    /\ DateIdle
    /\ WaitIdle
    /\ HeurIdle
    /\ DedupeIdle
    /\ ExportIdle
    /\ RetryIdle
    /\ DocsIdle

NextDocs == \E doc \in Documents : ProcessDocument(doc)

SpecDocs == InitDocs /\ [][NextDocs]_vars

(***************************************************************************)
(* SpecWait: threads call acquire() and wait_time() on one limiter while   *)
(* the clock advances.                                                     *)
(***************************************************************************)
InitWait == InitConc

NextWait ==
    \/ NextConc
    \/ \E t \in Threads : WaitTime(t)

SpecWait == InitWait /\ [][NextWait]_vars

(***************************************************************************)
(* SpecEarly: the first steps of process_invoice, up to the early-exit     *)
(* test, on every combination of confidences the extractors can return.    *)
(***************************************************************************)
InitEarly ==
    /\ RLInit(OcrMaxCalls, OcrWindow)
    /\ CfIdle
    /\ BPIdle
    /\ jblocks \in PIBlockLists
    /\ jblocks # <<>>
    /\ jheur \in [Fields -> UNION {ExtractorReturns(f) : f \in Fields}]
    /\ \A f \in Fields : jheur[f] \in ExtractorReturns(f)
    /\ jresult = NoResult
    /\ joriginal = NoResult
    /\ llm_call_count \in {0, MaxLlmCallsPerJob}
    /\ runs = 0
    /\ nverified = 0
    /\ presult = NoReturn
    /\ audit = <<>>
    /\ vreq = NoRequest
    /\ RunIdle
    /\ ETIdle
    /\ GateIdle
    /\ StoreIdle
    /\ DateIdle
    /\ WaitIdle
    /\ DocsIdle
    /\ HeurIdle
    /\ DedupeIdle
    /\ ExportIdle
    /\ RetryIdle

NextEarly ==
    \/ PStart
    \/ PEarly

SpecEarly == InitEarly /\ [][NextEarly]_vars

(***************************************************************************)
(* SpecDate: extract_date runs again and again on one block list, at       *)
(* different clock readings.                                               *)
(***************************************************************************)
InitDate ==
    /\ RLInit(OcrMaxCalls, OcrWindow)
    /\ CfIdle
    /\ BPIdle
    /\ PIIdle
    /\ ETIdle
    /\ GateIdle
    /\ StoreIdle
    /\ HeurIdle
    /\ DedupeIdle
    /\ ExportIdle
    /\ RetryIdle
    /\ DocsIdle
    /\ WaitIdle
    /\ \E n \in 0..MaxDateBlocks : date_blocks \in [1..n -> DateBlocks]
    /\ date_runs = {}

NextDate == \E today \in Clocks : CallExtractDate(today)

SpecDate == InitDate /\ [][NextDate]_vars

(***************************************************************************)
(* SpecStore: documents processed one after the other, some of them the    *)
(* same invoice again.                                                     *)
(***************************************************************************)
InitStore ==
    /\ RLInit(OcrMaxCalls, OcrWindow)
    /\ CfIdle
    /\ BPIdle
    /\ PIIdle
    /\ ETIdle
    /\ GateIdle
    /\ DateIdle
    /\ HeurIdle
    /\ DedupeIdle
    /\ ExportIdle
    /\ RetryIdle
    /\ DocsIdle
    /\ WaitIdle
    /\ processed = <<>>

NextStore == \E d \in StoredInvoices : ProcessInvoice(d)

SpecStore == InitStore /\ [][NextStore]_vars

\* C1: with max_calls=2 and a 60 s window, once two calls have been
\* granted, every further acquire() whose clock reading is less than 60 s
\* after the first grant returns False, and the next acquire() made 61 s
\* after the later grant (no grant in between) returns True.
C1_WindowTest ==
    [][\A t \in Threads :
         /\ (/\ AcqCheck(t)
             /\ Len(granted) >= 2
             /\ tnow[t] < granted[1] + 60)
            => ret'[t] = "false"
         /\ (/\ AcqCheck(t)
             /\ Len(granted) = 2
             /\ tnow[t] = granted[2] + 61)
            => pc'[t] = "append"]_vars

\* A third call was refused inside the window and a later one was granted
\* 61 s after the second grant.
C1_Witness ==
    /\ Len(granted) = 3
    /\ granted[3] = granted[2] + 61
    /\ \E t \in Threads : ret[t] = "false"

\* The number of grants whose timestamps lie in [a, a + time_window].
GrantsIn(a) ==
    Cardinality({j \in 1..Len(granted) :
                    granted[j] >= a /\ granted[j] <= a + time_window})

\* C2: in every interleaving of concurrent acquire() calls, no interval of
\* length time_window holds more than max_calls granted timestamps.
C2_WindowBudget ==
    \A i \in 1..Len(granted) : GrantsIn(granted[i]) <= max_calls

\* Two threads are inside acquire() at once (one holds the lock, the other
\* waits for it) while the window is already full.
C2_Witness ==
    /\ Len(calls) >= max_calls
    /\ \E t1, t2 \in Threads :
          /\ t1 # t2
          /\ pc[t1] = "locked"
          /\ pc[t2] = "idle"
          /\ ret[t2] = "false"
          /\ ret[t1] = "true"

\* The value the fallback policy is specified to return.
PolicyOf(a) ==
    IF a.field_missing /\ a.is_required
    THEN [use |-> TRUE, reason |-> "missing_field"]
    ELSE IF a.confidence < 5000 /\ a.is_required
    THEN [use |-> TRUE, reason |-> "low_conf"]
    ELSE IF /\ a.is_required
            /\ a.timings.present
            /\ OcrTime(a.timings) + a.timings.heuristics > 10
            /\ a.confidence < 8500
    THEN [use |-> TRUE, reason |-> "slow_pipeline"]
    ELSE [use |-> FALSE, reason |-> ""]

Clamp(lo, hi, x) == IF x < lo THEN lo ELSE IF x > hi THEN hi ELSE x

C10_DenialReports ==
    /\ cause = "queue" => ~bpret.ok /\ bpret.wait.none
                           /\ report = "queue_full"
    /\ cause = "rate" => ~bpret.ok /\ ~bpret.wait.none
                          /\ report = "rate_limited"

\* The early exit of process_invoice is dead code: heuristic confidences
\* stop at 0.9 and early-fallback ones at 0.7, so no quick confidence
\* reaches 0.85.
EarlyExitNeverTaken == ~all_high_conf

\* C4: when the fallback step of a run is over, process_invoice has issued
\* at most one external-model request, and a single request names every
\* field that needs fallback.
C4_SingleBatchedRequest ==
    ppc = "reconciled" =>
        /\ Len(llm_calls) <= 1
        /\ Len(llm_calls) = 1 =>
              Range(fields_to_extract) \subseteq Range(llm_calls[1])

\* C5: when the batched response carries a total whose integer form equals
\* or is a substring of the digits of the known invoice identifier, or
\* that exceeds 1,000,000, the total's value, confidence and source after
\* reconciliation are the heuristic ones held before the call.
C5_TotalRejected ==
    LET id == hres["invoice_id"].v
        llm_total == llm_result.total_amount
        total_int_str == IntStr(llm_total.n \div 100)
    IN  ( /\ ppc = "reconciled"
          /\ ~llm_result.none
          /\ Truthy(llm_total)
          /\ \/ DigitsOf(id) # <<>> /\ IsSubstr(total_int_str, DigitsOf(id))
             \/ llm_total.n > MaxTotalCents )
        => /\ hres["total_amount"].v = snap.v
           /\ fconf["total_amount"] = snap.conf
           /\ fsrc["total_amount"] = snap.src

\* C7: in every stored result, each missing_* flag is true exactly when its
\* field is empty, and is_invalid exactly when one of the four is.
IsEmpty(v) == v.k \in {"none", "empty", "blank"}

C7_FlagsMatchEmptiness ==
    LET fl == jresult.flags
        set(b) == fl.present /\ b
    IN  jresult.present =>
          /\ set(fl.missing_invoice_id) <=> IsEmpty(jresult.invoice_id)
          /\ set(fl.missing_total) <=> IsEmpty(jresult.total_amount)
          /\ set(fl.missing_vendor_name) <=> IsEmpty(jresult.vendor_name)
          /\ set(fl.missing_date) <=> IsEmpty(jresult.invoice_date)
          /\ set(fl.is_invalid) <=>
                \/ IsEmpty(jresult.invoice_id)
                \/ IsEmpty(jresult.total_amount)
                \/ IsEmpty(jresult.vendor_name)
                \/ IsEmpty(jresult.invoice_date)

\* extract_total_amount never returns a value whose integer form spells the
\* digits of the identifier it was given.
TotalNeverIdentifier ==
    (tret.called /\ tinvoice_id.present /\ tret.ret.some)
        => tret.ret.w # tinvoice_id.n

\* The blocks hold the identifier 27301261 and, as their only amount, the
\* token 544,46 (with or without a currency symbol in front).
HoldsIdAnd54446 ==
    /\ \E i \in DOMAIN tblocks : 27301261 \in LongRuns(tblocks[i])
    /\ \E i \in DOMAIN tblocks :
          tblocks[i] \in {BlkTotalDollar, BlkTotalPlain}
    /\ \A i \in DOMAIN tblocks :
          tblocks[i] \in {BlkInvoiceNo, BlkBareId, BlkTotalDollar,
                          BlkTotalPlain}

\* C6: for every block list and identifier with digits the returned total
\* never has the identifier's digits as its integer form, and for blocks
\* holding invoice ID 27301261 and the amount token 544,46 the call
\* returns 544.46.
C6_TotalExcludesInvoiceId ==
    /\ TotalNeverIdentifier
    /\ (tret.called /\ tinvoice_id = IdOf(27301261) /\ HoldsIdAnd54446)
          => (tret.ret.some /\ tret.ret.w = 544 /\ tret.ret.f = 46)

\* C11: a run in which a limiter refused an OCR or model call ends with a
\* retryable rate-limited or queue-full outcome for its caller, never with
\* a normal success.
C11_DenialReported ==
    grun.denied # {} => grun.outcome \in {"rate_limited", "queue_full"}

\* The retried call is over and each of its attempts met an error.
RetryFailed ==
    /\ rpc = "done"
    /\ \A i \in DOMAIN rlog : rlog[i] = "error"

\* C13: a failing model or OCR call is attempted 3 times, with sleeps of
\* the initial delay (0.5 s model, 1.0 s OCR) and then twice that in
\* between, and afterwards the caller gets no value and no exception.
C13_RetriedWithBackoff ==
    RetryFailed =>
        /\ Len(rlog) = MaxRetries + 1
        /\ rslept = <<InitialDelay(rkind), 2 * InitialDelay(rkind)>>
        /\ rret = "none"

\* C14: a model call that took longer than its timeout (8 s) contributes
\* no value: extract_fields returns nothing for it.
C14_SlowCallNoValue ==
    (xfret # "pending" /\ relapsed > LlmTimeout) => xfret = "none"

\* C12: when the model's response carries a total that is not a number,
\* the total's value, confidence and source after the reconciliation are
\* those the run held before the call (and so are they when the response
\* is missing).
C12_GarbledResponseDiscarded ==
    (/\ ppc = "reconciled"
     /\ llm_calls # <<>>
     /\ llm_result.none \/ llm_result.total_amount.k = "text")
        => /\ hres["total_amount"].v = snap.v
           /\ fconf["total_amount"] = snap.conf
           /\ fsrc["total_amount"] = snap.src

\* The record is one the gate is there to hold back: flagged for review,
\* a required field with confidence under 0.5, a duplicate, an arithmetic
\* mismatch, or a required field without a value.
Unsafe(rec) ==
    \/ rec.needs_human_review
    \/ \E f \in Required : rec.field_confidences[f] < LowConfidence
    \/ rec.is_duplicate
    \/ rec.arithmetic_mismatch
    \/ rec.valued # Required

\* C15: an export without override is blocked, with a non-empty list of
\* reasons, exactly when the record is unsafe; an export with override
\* goes through.
C15_ExportGate ==
    xout.path # "none" =>
        /\ ~xout.skip => (xout.blocked <=> Unsafe(xrec))
        /\ xout.blocked => xout.reasons # {}
        /\ xout.skip => ~xout.blocked

\* One of the four identity fields is None.
AnyNull(d) ==
    \/ d.vendor_id = NoneV
    \/ d.invoice_id = NoneV
    \/ d.total_amount = NoneV
    \/ d.invoice_date = NoneV

\* C16 as stated: a hash is returned if and only if none of the four
\* fields is None, and with a None field there is no exact duplicate.
C16_HashIffNonNull ==
    dret.called =>
        /\ dret.dedupe_hash.some <=> ~AnyNull(dinv)
        /\ AnyNull(dinv) => ~dret.is_exact_duplicate

\* C16: compute_dedupe_hash returns the SHA-256 of the four fields if and
\* only if each of them is truthy (not None, not empty, not zero); with a
\* None field no hash is returned and check_duplicates reports no exact
\* duplicate.
C16_HashIffAllTruthy ==
    dret.called =>
        /\ dret.dedupe_hash.some <=> AllFour(dinv)
        /\ dret.dedupe_hash.some => dret.dedupe_hash = Sha256Of(dinv)
        /\ AnyNull(dinv) =>
              ~dret.dedupe_hash.some /\ ~dret.is_exact_duplicate

\* A call with a total of None against known hashes, and a call that found
\* its hash among them.
C16_Witness ==
    /\ dret.called
    /\ dhashes = KnownHashes
    /\ \/ dinv.total_amount = NoneV /\ ~dret.dedupe_hash.some
       \/ dret.is_exact_duplicate

\* C17: the near-duplicate list check_duplicates reports holds only
\* existing records with similarity at or above 0.95, is sorted by
\* descending similarity and has at most 5 entries.
C17_NearDuplicateList ==
    dret.called =>
        LET l == dret.near_duplicates
        IN  /\ \A i \in DOMAIN l :
                  /\ l[i].similarity >= SimilarityThreshold
                  /\ l[i].job_id \in DOMAIN dexisting
                  /\ dexisting[l[i].job_id].similarity = l[i].similarity
            /\ \A i \in 1..(Len(l) - 1) :
                  l[i].similarity >= l[i + 1].similarity
            /\ Len(l) <= 5

\* C18: a call of extract_total_amount comes after the call of
\* extract_invoice_id has returned and is given its value; the calls of
\* extract_tax_amount and extract_subtotal come after the call of
\* extract_total_amount has returned and are given its value.
C18_ExtractionOrder ==
    \A k \in DOMAIN hlog :
        LET after(fn) ==
                \E j \in 1..(k - 1) :
                    hlog[j].fn = fn /\ hlog[k].arg = hlog[j].ret
        IN  /\ hlog[k].fn = "extract_total_amount"
                  => after("extract_invoice_id")
            /\ hlog[k].fn \in {"extract_tax_amount", "extract_subtotal"}
                  => after("extract_total_amount")

\* All seven calls were made, an identifier with digits went into the total
\* extraction and a total came out of it.
C18_Witness ==
    /\ Len(hlog) = Len(HeurOrder)
    /\ \E k \in DOMAIN hlog :
          /\ hlog[k].fn = "extract_total_amount"
          /\ hlog[k].arg.k = "id" /\ hlog[k].arg.tok.kind = "digits"
          /\ hlog[k].ret.k = "amount"

\* No invoice-number label and no token the identifier patterns match.
NothingForId(blocks) ==
    \A i \in DOMAIN blocks :
        /\ ~HasInvoiceNoLabel(blocks[i])
        /\ \A k \in DOMAIN blocks[i].tokens :
              ~InvoiceIdStrictMatches(blocks[i].tokens[k])

\* No amount in the blocks that survives the exclusions.
NothingForTotal(blocks, invoice_id) ==
    \/ blocks = <<>>
    \/ \A k \in DOMAIN Candidates(blocks) :
          Excluded(Candidates(blocks)[k], invoice_id,
                   InvoiceIdNumbers(blocks, invoice_id))

C20_CallsBehindLimiter ==
    grun.ungated = {}

\* C21: each document is an independent unit of work: whatever documents
\* were processed before it, processing a document yields the same record,
\* so over all the runs of a process a document has at most one record.
C21_IndependentRuns ==
    \A doc \in Documents : Cardinality(docrec[doc]) <= 1

\* The fields whose value in the record came from the external model, by
\* the early call or by the batched one.
FromModel == taken.early \cup taken.batch

\* C22: in the result of process_invoice, llm_used is true exactly when an
\* external model response was merged into the record, and every field whose
\* value came from the external model is listed in llm_fields and has source
\* 'llm'.
C22_AuditTrail ==
    (ppc = "idle" /\ presult.present) =>
        /\ presult.llm_used <=> (FromModel # {})
        /\ \A f \in FromModel :
              /\ f \in Range(presult.llm_fields)
              /\ presult.field_sources[f] = "llm"

\* C23: when the reconciliation accepts an external value for a field, the
\* field's confidence becomes the old confidence plus 0.2, capped at 0.85,
\* is not lower than the old confidence, and the field's source is 'llm'.
C23_BoostOnAcceptance ==
    ppc = "reconciled" =>
        \A f \in taken.batch :
            /\ fconf[f] = Min2(8500, conf_before[f] + 2000)
            /\ fconf[f] >= conf_before[f]
            /\ fsrc[f] = "llm"

\* The part of C23 without the lower bound.
C23_BoostFormula ==
    ppc = "reconciled" =>
        \A f \in taken.batch :
            /\ fconf[f] = Min2(8500, conf_before[f] + 2000)
            /\ fsrc[f] = "llm"

\* A step keeps the entries of the audit file and appends at most one.
AuditGrows ==
    \/ audit' = audit
    \/ /\ Len(audit') = Len(audit) + 1
       /\ SubSeq(audit', 1, Len(audit)) = audit

C25_WaitTimeAgreesWithAcquire ==
    [][\A t \in Threads :
         /\ (/\ AcqCheck(t)
             /\ wret.v = 0
             /\ wret.thread # 0
             /\ wret.at = tnow[t]
             /\ wret.grants = Len(granted))
            => pc'[t] = "append"
         /\ (/\ WaitTime(t)
             /\ ret[t] = "false"
             /\ tnow[t] = now)
            => wret'.v > 0]_vars

\* The first half of C25 when the window is not full, and the second half
\* when the oldest call is less than a window old.
C25_AwayFromTheBoundary ==
    [][\A t \in Threads :
         /\ (/\ AcqCheck(t)
             /\ wret.v = 0
             /\ wret.thread # 0
             /\ wret.at = tnow[t]
             /\ wret.grants = Len(granted)
             /\ (calls # <<>> => Head(calls) # tnow[t] - time_window))
            => pc'[t] = "append"
         /\ (/\ WaitTime(t)
             /\ ret[t] = "false"
             /\ tnow[t] = now
             /\ Head(calls) # now - time_window)
            => wret'.v > 0]_vars

\* C26: for a fixed block list any two runs of the extractor return the
\* same (value, confidence, reason), whatever the wall-clock time of the
\* runs.
C26_ExtractionDeterministic == Cardinality(date_runs) <= 1


\* C27: at the early-exit test of process_invoice the quick confidence of
\* every required field is at most 0.83, so the test "all required fields
\* at or above 0.85" fails and the early-exit branch is never taken.
C27_EarlyExitDead ==
    ppc = "early" =>
        /\ \A f \in Required : QuickConf(hres[f]) <= 8300
        /\ ~all_high_conf

\* Every extractor returned its highest confidence, 0.9, and the test ran.
C27_Witness ==
    /\ ppc = "early"
    /\ \A f \in Required : Truthy(hres[f].v) /\ hres[f].conf = 9000
    /\ \A f \in Required : QuickConf(hres[f]) = 8300

\* C29: detect_near_duplicates never lists an existing invoice that equals
\* the new one in vendor_id, invoice_id, total_amount and invoice_date; so
\* when the hash of the new invoice is not among the existing hashes and
\* the existing invoices are all such copies, check_duplicates reports
\* neither an exact nor a near duplicate.
C29_IdenticalNeverNear ==
    dret.called =>
        /\ \A n \in 1..Len(dret.near_duplicates) :
              Identity(dexisting[dret.near_duplicates[n].job_id])
                  # Identity(dinv)
        /\ (/\ compute_dedupe_hash(dinv) \notin dhashes
            /\ \A i \in 1..Len(dexisting) :
                  Identity(dexisting[i]) = Identity(dinv))
           => ~dret.is_exact_duplicate /\ ~dret.is_near_duplicate

\* A complete invoice checked against a copy of itself and a near match,
\* its hash unknown: the near match is listed, the copy is not.
C29_Witness ==
    /\ dret.called
    /\ AllFour(dinv)
    /\ compute_dedupe_hash(dinv) \notin dhashes
    /\ \E i \in 1..Len(dexisting) : Identity(dexisting[i]) = Identity(dinv)
    /\ dret.is_near_duplicate
    /\ ~dret.is_exact_duplicate

\* C28: in every result of process_invoice is_duplicate and
\* is_near_duplicate are false and near_duplicates is empty, whatever was
\* processed before; a second run on the same invoice is not flagged.
C28_NeverFlagged ==
    \A i \in 1..Len(processed) :
        /\ ~processed[i].is_duplicate
        /\ ~processed[i].is_near_duplicate
        /\ processed[i].near_duplicates = <<>>

\* The same invoice was processed twice: two results carry one hash.
C28_Witness ==
    \E i, j \in 1..Len(processed) :
        /\ i < j
        /\ processed[i].dedupe_hash.some
        /\ processed[j].dedupe_hash = processed[i].dedupe_hash


\* C30: in every reachable state of BackpressureManager pending_ocr and
\* pending_llm are empty, so can_process_ocr and can_process_llm never
\* return the queue-full outcome (False, None).
C30_QueuesStayEmpty ==
    /\ pending_ocr = 0
    /\ pending_llm = 0
    /\ cause # "queue"
    /\ ~bpret.ok => ~bpret.wait.none

\* can_process_ocr refused a run and can_process_llm refused a later one.
C30_Witness ==
    /\ ~bpret.ok
    /\ cause = "rate"
    /\ grun.denied = {"llm"}
====
